---- MODULE Spec2Model ----
(***************************************************************************)
(* Offline-first synchronisation core of therapy-helper-app:               *)
(*   SyncQueueService  (the Offline Queue: mutation list + tombstones),    *)
(*   SyncManager       (the Sync Orchestrator: connection state, cycle,    *)
(*                      pushChange, mergeData),                            *)
(*   GoogleSheetsService (the Remote Adapter, seen through its results).   *)
(*                                                                         *)
(* JavaScript runs one callback at a time; a function is suspended only at *)
(* an await of a remote result.  Every action below is one such            *)
(* run-to-suspension segment.                                              *)
(***************************************************************************)
EXTENDS Integers, Sequences, FiniteSets, TLC

\* ------------------------------------------------------------------ bounds
MaxClock == 3       \* entries created (add calls) in one behaviour
MaxId == 2          \* distinct record ids
NumPasses == 2      \* drain passes (process calls) that can be in flight at once
NumPushes == 2      \* pushChange calls that can be suspended at once
MaxCalls == 4       \* calls of the orchestrator's public methods in one behaviour
MaxTimers == 1      \* pending setTimeout drains
MaxItems == 3       \* records in the local plus the remote list of one kind (merge inputs)
MaxListeners == 2   \* callbacks registered with onConnectionChange, and with onSyncComplete

\* ------------------------------------------------------------------ values
NoId == 0                           \* data.id undefined (falsy in `if (id)`)
Ids == 1..MaxId
Names == {"A", "B"}                 \* a record's domain fields
Times == {1, 2}                     \* parsed updatedAt instants
Kinds == {"clients", "sessions"}
PassIds == 1..NumPasses
PushIds == 1..NumPushes

Rec(i, t, n) == [id |-> i, updatedAt |-> t, name |-> n]
Records == {Rec(i, t, n) : i \in Ids, t \in Times, n \in Names}

VARIABLES
  queue,        \* SyncQueueService.#queue
  deletedIds,   \* SyncQueueService.#deletedIds
  stQueue,      \* localStorage[storageKeyQueue], the JSON text as a value without undefined keys
  stDeleted,    \* localStorage[storageKeyDeleted]
  clock,        \* number of entries created so far; an entry's timestamp
  passes,       \* process() calls suspended on their handler
  isOnline,     \* SyncManager.#isOnline
  isSyncing,    \* SyncManager.#isSyncing
  configured,   \* GoogleSheetsService.isConfigured
  pushes,       \* pushChange() calls suspended on their remote apply
  cycle,        \* the sync() call in progress
  probe,        \* checkConnection() call suspended on ping
  timers,       \* setTimeout(() => #processQueue(), 100) not yet fired
  calls,        \* number of public methods of the orchestrator called so far
  merge,        \* inputs and result of the mergeData call under study
  appliedOk,    \* history: the entries whose remote apply returned success
  superseded,   \* history: timestamps of entries removed by add's id filter
  cleared,      \* history: timestamps of entries removed by clear / clearAll
  lastRet,      \* history: the operation that returned in the last step, and its result
  connectionListeners,  \* SyncManager.#connectionListeners: per callback, does it throw?
  syncListeners,        \* SyncManager.#syncListeners: per callback, does it throw?
  notes,        \* history: the listener invocations of the last step, in order
  maxUrlLength, \* GoogleSheetsService.#maxUrlLength
  remoteCall,   \* the call of a GoogleSheetsService method under study
  storageFault, \* which localStorage call throws at present, if any
  sheet         \* the rows of the spreadsheet the Apps Script serves, per kind

queueVars == <<queue, deletedIds, stQueue, stDeleted, clock, passes>>
mgrVars == <<isOnline, isSyncing, configured, pushes, cycle, probe, timers>>
histVars == <<appliedOk, superseded, cleared>>
lsnVars == <<connectionListeners, syncListeners>>
adapterVars == <<maxUrlLength, remoteCall, sheet>>
vars == <<queueVars, mgrVars, merge, histVars, lastRet, calls, lsnVars, notes, adapterVars,
          storageFault>>

\* ------------------------------------------------------------ small helpers
Range(s) == {s[i] : i \in DOMAIN s}
Stamps(s) == {s[i].timestamp : i \in DOMAIN s}
EntryId(item) == item.data.id
NoRet == [op |-> "none"]
EmptyDeleted == [clients |-> <<>>, sessions |-> <<>>]
IdlePass == [st |-> "idle"]
NoMerge == [st |-> "none"]
Active(ps) == {p \in DOMAIN ps : ps[p].st = "await"}

\* this.#queue is assigned a new array: a suspended pass keeps iterating the old one
Reassigned(ps) ==
  [p \in DOMAIN ps |->
     IF ps[p].st = "await" THEN [ps[p] EXCEPT !.live = FALSE, !.clean = FALSE] ELSE ps[p]]

\* this.#queue.push(e) on the array object a suspended pass may be iterating
PushedInPlace(ps, e) ==
  [p \in DOMAIN ps |->
     IF ps[p].st = "await"
     THEN [ps[p] EXCEPT !.arr = IF ps[p].live THEN Append(@, e) ELSE @, !.clean = FALSE]
     ELSE ps[p]]

\* ---------------------------------------------------------- SyncQueueService
\* The queue-side state the methods read and write, threaded through calls.
QS == [queue |-> queue, passes |-> passes, clock |-> clock,
       superseded |-> superseded, cleared |-> cleared]

\* add(action, data), part_001:53-71
add_KeepsFirst(S, action, data) ==
  LET e == [action |-> action, data |-> data, timestamp |-> S.clock + 1]
  IN IF data.id # NoId /\ \E i \in DOMAIN S.queue : EntryId(S.queue[i]) = data.id
     THEN [S EXCEPT !.passes = Reassigned(S.passes), !.clock = S.clock + 1]
     ELSE [S EXCEPT !.queue = Append(S.queue, e),
                    !.passes = PushedInPlace(S.passes, e),
                    !.clock = S.clock + 1]

add_NoDedup(S, action, data) ==
  LET e == [action |-> action, data |-> data, timestamp |-> S.clock + 1]
  IN [S EXCEPT !.queue = Append(S.queue, e),
               !.passes = PushedInPlace(S.passes, e),
               !.clock = S.clock + 1]

add(S, action, data) ==
  LET id == data.id
      e == [action |-> action, data |-> data, timestamp |-> S.clock + 1]
      kept == SelectSeq(S.queue, LAMBDA item : EntryId(item) # id)
  IN IF id # NoId
     THEN [S EXCEPT !.queue = Append(kept, e),
                    !.passes = Reassigned(S.passes),
                    !.clock = S.clock + 1,
                    !.superseded = S.superseded \cup (Stamps(S.queue) \ Stamps(kept))]
     ELSE [S EXCEPT !.queue = Append(S.queue, e),
                    !.passes = PushedInPlace(S.passes, e),
                    !.clock = S.clock + 1]

\* removeById(id), part_001:77-83
removeById(S, id) ==
  [S EXCEPT !.queue = SelectSeq(S.queue, LAMBDA item : EntryId(item) # id),
            !.passes = Reassigned(S.passes)]

\* removeItems(itemsToRemove), part_001:89-93
removeItems(S, itemsToRemove) ==
  LET idsToRemove == {EntryId(itemsToRemove[i]) : i \in DOMAIN itemsToRemove}
  IN [S EXCEPT !.queue = SelectSeq(S.queue, LAMBDA item : EntryId(item) \notin idsToRemove),
               !.passes = Reassigned(S.passes)]

\* clear(), part_001:98-101 ; clearAll() also resets the tombstones (see ClearAll)
clear(S) ==
  [S EXCEPT !.queue = <<>>,
            !.passes = Reassigned(S.passes),
            !.cleared = S.cleared \cup Stamps(S.queue)]

\* process(handler), part_001:169-192: the loop up to the first handler call
processStart(S, p, owner) ==
  [S EXCEPT !.passes[p] =
     [st |-> "await", owner |-> owner, arr |-> S.queue, live |-> TRUE, idx |-> 1,
      successful |-> <<>>, failed |-> <<>>, calls |-> <<S.queue[1]>>, clean |-> TRUE,
      sent |-> TRUE]]

\* the lists a pass holds once the handler of its current item has settled
processLists_DropsFailed(ps, success) ==
  LET item == ps.arr[ps.idx]
  IN [successful |-> IF success THEN Append(ps.successful, item) ELSE ps.successful,
      failed |-> ps.failed]

processLists(ps, success) ==
  LET item == ps.arr[ps.idx]
  IN [successful |-> IF success THEN Append(ps.successful, item) ELSE ps.successful,
      failed |-> IF success THEN ps.failed ELSE Append(ps.failed, item)]

\* true when the settled handler call was for the last element of the iterated array
processEnds(ps) == ps.idx >= Len(ps.arr)

\* process(handler): from a settled handler call to the next call, or to the return
processResume(S, p, success) ==
  LET ps == S.passes[p]
      l == processLists(ps, success)
  IN IF ~processEnds(ps)
     THEN [S EXCEPT !.passes[p] = [ps EXCEPT !.idx = @ + 1,
                                             !.successful = l.successful,
                                             !.failed = l.failed,
                                             !.calls = Append(@, ps.arr[ps.idx + 1])]]
     ELSE [S EXCEPT !.queue = l.failed,
                    !.passes = [Reassigned(S.passes) EXCEPT ![p] = IdlePass]]

\* what process() returns, with the history of the pass
processRet(ps, success) ==
  LET l == processLists(ps, success)
  IN [op |-> "process", owner |-> ps.owner, successful |-> l.successful, failed |-> l.failed,
      calls |-> ps.calls, clean |-> ps.clean]

\* JSON.stringify(this.#queue), part_001:218: a key whose value is undefined (data.id
\* here) is left out of the text
stringify(q) ==
  [i \in DOMAIN q |->
     [q[i] EXCEPT !.data = IF q[i].data.id = NoId
                            THEN [k \in DOMAIN q[i].data \ {"id"} |-> q[i].data[k]]
                            ELSE q[i].data]]

\* JSON.parse(savedQueue), part_001:202: an object without the key id, whose id reads
\* as undefined
parse(text) ==
  [i \in DOMAIN text |->
     [text[i] EXCEPT !.data = IF "id" \in DOMAIN text[i].data
                               THEN text[i].data
                               ELSE [k \in DOMAIN text[i].data \cup {"id"} |->
                                       IF k = "id" THEN NoId ELSE text[i].data[k]]]]

\* the two setItem calls of #save(), part_001:217-225, in one try: the first one that
\* throws ends it, and the catch only logs
NoFault == "none"
setItems_QueueOnly(fault, stQ, stD, q, D) ==
  [queue |-> IF fault = "setQueue" THEN stQ ELSE stringify(q), deletedIds |-> stD]

setItems(fault, stQ, stD, q, D) ==
  [queue |-> IF fault = "setQueue" THEN stQ ELSE stringify(q),
   deletedIds |-> IF fault \in {"setQueue", "setDeleted"} THEN stD ELSE D]

\* `catch (e) { console.error(...) }` of #save(), part_001:223-225: does a throwing
\* setItem make the method that called #save() raise?
saveRaises_NoCatch(fault) == fault # NoFault

saveRaises(fault) == FALSE

\* what a method whose last statement is this.#save() gives its caller
afterSave(fault, ret) == IF saveRaises(fault) THEN [op |-> ret.op, threw |-> TRUE] ELSE ret

\* clearAll(), part_001:106-110, and clearDeletedIds(), part_001:158-161: the queue
\* side and the tombstones they leave
clearAll(S, D) ==
  [S |-> [S EXCEPT !.queue = <<>>,
                   !.passes = Reassigned(S.passes),
                   !.cleared = S.cleared \cup Stamps(S.queue)],
   D |-> [clients |-> <<>>, sessions |-> <<>>]]

clearDeletedIds_AlsoQueue(S, D) == clearAll(S, D)

clearDeletedIds(S, D) == [S |-> S, D |-> [clients |-> <<>>, sessions |-> <<>>]]

\* the end of a method that has produced S and D, with or without a call of #save()
CommitIf(S, D, saves) ==
  /\ deletedIds' = D
  /\ queue' = S.queue
  /\ passes' = S.passes
  /\ clock' = S.clock
  /\ stQueue' = IF saves THEN setItems(storageFault, stQueue, stDeleted, S.queue, D).queue
                 ELSE stQueue
  /\ stDeleted' = IF saves THEN setItems(storageFault, stQueue, stDeleted, S.queue, D).deletedIds
                   ELSE stDeleted

\* #save(), part_001:216-226, after the method has produced S
Commit(S, D) == CommitIf(S, D, TRUE)

\* a stored queue text that JSON.parse rejects
Corrupt == <<[corrupt |-> TRUE]>>

\* #load(), part_001:197-211, run by the constructor on what is in localStorage (a
\* key never written is stored here as the text of its empty value, which reads the
\* same as getItem's null): when getItem or JSON.parse throws, the catch leaves both
\* the queue and the tombstones empty
loadFrom(getItemThrows, stQ, stD) ==
  IF getItemThrows \/ stQ = Corrupt
  THEN [queue |-> <<>>, deletedIds |-> [clients |-> <<>>, sessions |-> <<>>]]
  ELSE [queue |-> parse(stQ), deletedIds |-> stD]

load(stQ, stD) == loadFrom(FALSE, stQ, stD)

\* the history of the entries that left the queue
CommitHist(S) ==
  /\ superseded' = S.superseded
  /\ cleared' = S.cleared

\* addDeletedId(type, id), part_001:125-134: the tombstone lists after the call
addDeletedId_Replaces(D, type, id) ==
  IF \E i \in DOMAIN D[type] : D[type][i] = id
  THEN D
  ELSE [D EXCEPT ![type] = <<id>>]

addDeletedId(D, type, id) ==
  IF \E i \in DOMAIN D[type] : D[type][i] = id
  THEN D
  ELSE [D EXCEPT ![type] = Append(@, id)]

\* `if (!this.#deletedIds[type].includes(id)) { ...; this.#save(); }`, part_001:130-133:
\* does the call reach #save()?
addDeletedIdSaves_Always(D, type, id) == TRUE

addDeletedIdSaves(D, type, id) == ~\E i \in DOMAIN D[type] : D[type][i] = id

\* isDeleted(type, id), part_001:142-144
isDeleted(D, type, id) == \E i \in DOMAIN D[type] : D[type][i] = id

\* ------------------------------------------------------ SyncManager.mergeData
Missing == 0        \* updatedAt undefined or '': `updatedAt || 0` is the epoch
Invalid == -1       \* an updatedAt string that Date cannot parse
NaN == -2           \* getTime() of an Invalid Date

\* new Date(x.updatedAt || 0).getTime(), part_002:259-260
getTime(updatedAt) ==
  IF updatedAt = Missing THEN 0
  ELSE IF updatedAt = Invalid THEN NaN
  ELSE updatedAt

\* a > b on numbers, false when either side is NaN
newer_OrEqual(a, b) == a # NaN /\ b # NaN /\ a >= b

newer(a, b) == a # NaN /\ b # NaN /\ a > b

\* new Map(list.map((c) => [c.id, c])).get(id): the last item with that id; 0 if none
mapIndex(list, id) ==
  LET idxs == {i \in DOMAIN list : list[i].id = id}
  IN IF idxs = {} THEN 0 ELSE CHOOSE i \in idxs : \A j \in idxs : j <= i

\* list.findIndex / list.find by id: the first item with that id; 0 if none
findIndex(list, id) ==
  LET idxs == {i \in DOMAIN list : list[i].id = id}
  IN IF idxs = {} THEN 0 ELSE CHOOSE i \in idxs : \A j \in idxs : i <= j

\* remoteData.<kind>.filter((c) => !isDeleted(kind, c.id)), part_002:239-244
activeRemote_Unfiltered(D, type, remoteList) == remoteList

activeRemote(D, type, remoteList) ==
  SelectSeq(remoteList, LAMBDA c : ~isDeleted(D, type, c.id))

\* the body of activeRemote<Kind>.forEach, part_002:251-269 and 272-292
mergeOne_NoRemoteOnly(merged, localList, remoteItem) ==
  LET li == mapIndex(localList, remoteItem.id)
      index == findIndex(merged, remoteItem.id)
  IN IF li = 0 THEN merged
     ELSE IF newer(getTime(remoteItem.updatedAt), getTime(localList[li].updatedAt)) /\ index # 0
          THEN [merged EXCEPT ![index] = remoteItem]
          ELSE merged

mergeOne_Prepends(merged, localList, remoteItem) ==
  LET li == mapIndex(localList, remoteItem.id)
      index == findIndex(merged, remoteItem.id)
  IN IF li = 0 THEN <<remoteItem>> \o merged
     ELSE IF newer(getTime(remoteItem.updatedAt), getTime(localList[li].updatedAt)) /\ index # 0
          THEN [merged EXCEPT ![index] = remoteItem]
          ELSE merged

mergeOne(merged, localList, remoteItem) ==
  LET li == mapIndex(localList, remoteItem.id)
      index == findIndex(merged, remoteItem.id)
  IN IF li = 0 THEN Append(merged, remoteItem)
     ELSE IF newer(getTime(remoteItem.updatedAt), getTime(localList[li].updatedAt)) /\ index # 0
          THEN [merged EXCEPT ![index] = remoteItem]
          ELSE merged

RECURSIVE mergeEach(_, _, _)
mergeEach(merged, localList, active) ==
  IF active = <<>> THEN merged
  ELSE mergeEach(mergeOne(merged, localList, Head(active)), localList, Tail(active))

\* The array objects of one kind that a mergeData call holds: the local list and the
\* remote list it was given, and the list it builds.  `const mergedClients =
\* [...localClients]` (part_002:247-248) makes the list it writes to a new array.
mergedArray_IsLocal == "local"

mergedArray == "merged"

\* the contents of the three arrays once activeRemote<Kind>.forEach has run: every
\* push and every indexed assignment (part_002:256, 265) goes to the merged array; the
\* local Map (part_002:235-236) holds the items the local list had at the call
mergeArrays(D, type, remoteList, localList) ==
  LET h == [local |-> localList, remote |-> remoteList, merged |-> localList]
  IN [h EXCEPT ![mergedArray] =
        mergeEach(h[mergedArray], localList, activeRemote(D, type, remoteList))]

\* mergedClients, part_002:247-269
mergeClients(D, remoteClients, localClients) ==
  mergeArrays(D, "clients", remoteClients, localClients)[mergedArray]

\* mergedSessions, part_002:248-292
mergeSessions(D, remoteSessions, localSessions) ==
  mergeArrays(D, "sessions", remoteSessions, localSessions)[mergedArray]

\* the test of local<Kind>.forEach, part_002:295-327: is this local item enqueued?
needsPush_NewerOrEqual(remoteList, localItem) ==
  LET ri == findIndex(remoteList, localItem.id)
  IN \/ ri = 0
     \/ newer_OrEqual(getTime(localItem.updatedAt), getTime(remoteList[ri].updatedAt))

needsPush_OnlyMissing(remoteList, localItem) == findIndex(remoteList, localItem.id) = 0

needsPush(remoteList, localItem) ==
  LET ri == findIndex(remoteList, localItem.id)
  IN \/ ri = 0
     \/ newer(getTime(localItem.updatedAt), getTime(remoteList[ri].updatedAt))

RECURSIVE queueLocal(_, _, _, _)
queueLocal(S, action, remoteList, localList) ==
  IF localList = <<>> THEN S
  ELSE queueLocal(IF needsPush(remoteList, Head(localList))
                  THEN add(S, action, Head(localList))
                  ELSE S,
                  action, remoteList, Tail(localList))

\* an argument, or a field of the fetched snapshot, that is truthy but no array
NotAnArray == <<[notAnArray |-> TRUE]>>

\* mergeData raises a TypeError in part_002:235-244 (.map / .filter of what is no array),
\* before it has changed anything
mergeThrows(remoteData, localClients, localSessions) ==
  NotAnArray \in {localClients, localSessions, remoteData.clients, remoteData.sessions}

\* `if (!this.#syncQueue.isEmpty && this.#isOnline)`, part_002:330: is the drain handed
\* to setTimeout?
schedulesDrain_AlsoOffline(q, online) == q # <<>>

schedulesDrain(q, online) == q # <<>> /\ online

\* mergeData(remoteData, localClients, localSessions), part_002:234-335
\* (online: #isOnline at the call): the result, the queue side after the adds, and
\* whether a drain was handed to setTimeout
mergeData(S, D, online, remoteData, localClients, localSessions) ==
  LET hc == mergeArrays(D, "clients", remoteData.clients, localClients)
      hs == mergeArrays(D, "sessions", remoteData.sessions, localSessions)
      S1 == queueLocal(S, "saveClient", hc.remote, hc.local)
      S2 == queueLocal(S1, "saveSession", hs.remote, hs.local)
  IN [result |-> [clients |-> hc[mergedArray], sessions |-> hs[mergedArray]],
      S |-> S2,
      scheduled |-> schedulesDrain(S2.queue, online),
      array |-> mergedArray,
      inputs |-> [clients |-> hc.local, sessions |-> hs.local,
                  remote |-> [clients |-> hc.remote, sessions |-> hs.remote]]]

\* ------------------------------------------------------ GoogleSheetsService
DefaultMaxUrlLength == 1800   \* constructor(scriptUrl, maxUrlLength = 1800)
NotesLimit == 500             \* #truncateDataForUrl: notes.length > 500
NotesShort == 200             \* #pushData: notes.substring(0, 200)
EllipsisLength == 3           \* '...'.length

\* A notes string: `len` characters of the caller's text, each taking `width` characters
\* once URLSearchParams has encoded it (1 for an ASCII letter, 6 for a Cyrillic one,
\* "%D0%B0"), followed by `dots` full stops (which are encoded as themselves).
Notes(n, w) == [len |-> n, width |-> w, dots |-> 0]
NoNotes == [undefined |-> TRUE]               \* data.notes is undefined
lengthOf(str) == str.len + str.dots
\* notes.substring(0, k)
substring(str, k) ==
  IF k <= str.len
  THEN [str EXCEPT !.len = k, !.dots = 0]
  ELSE [str EXCEPT !.dots = IF k - str.len < @ THEN k - str.len ELSE @]
\* the characters the notes value adds to params.toString(), GoogleSheetsService.js:228-231
encodedLength(str) ==
  IF str = NoNotes THEN 0 ELSE str.len * str.width + str.dots

\* #buildUrl(action, data).length, GoogleSheetsService.js:227-233; base is the length of
\* the URL that the script URL, the action and the other fields of data give
urlLength(base, data) == base + encodedLength(data.notes)

\* `const truncated = { ...data }`, GoogleSheetsService.js:241: the object the
\* truncation writes to is a copy, not the caller's object
truncatedObject == "copy"

\* the first cut, GoogleSheetsService.js:244-245
firstCut(str) == [substring(str, NotesLimit) EXCEPT !.dots = @ + EllipsisLength]

\* #truncateDataForUrl(data), GoogleSheetsService.js:240-250: the caller's object and
\* the object returned
truncateDataForUrl(data) ==
  LET h == [data |-> data, copy |-> data]
  IN IF data.notes # NoNotes /\ lengthOf(data.notes) > 0 /\ lengthOf(data.notes) > NotesLimit
     THEN [h EXCEPT ![truncatedObject].notes = firstCut(@)]
     ELSE h

\* `if (shortUrl.length > this.#maxUrlLength)`, GoogleSheetsService.js:189
tooLong_Never(len, max) == FALSE

tooLong(len, max) == len > max

\* #pushData(action, data), GoogleSheetsService.js:168-197, up to the request: is one
\* sent, with which notes and of which length; and the caller's object afterwards
pushData(cfg, max, base, data) ==
  LET h1 == truncateDataForUrl(data)
      url == urlLength(base, h1[truncatedObject])
      h2 == IF h1[truncatedObject].notes # NoNotes
            THEN [h1 EXCEPT ![truncatedObject].notes =
                    IF lengthOf(@) > 0 THEN substring(@, NotesShort) ELSE substring(@, 0)]
            ELSE h1
      shortUrl == urlLength(base, h2[truncatedObject])
  IN IF ~cfg
     THEN [sent |-> FALSE, caller |-> data, builds |-> 0]
     ELSE IF url > max
          THEN IF tooLong(shortUrl, max)
               THEN [sent |-> FALSE, caller |-> h2.data, builds |-> 2]
               ELSE [sent |-> TRUE, url |-> shortUrl, notes |-> h2[truncatedObject].notes,
                     caller |-> h2.data, builds |-> 2]
          ELSE [sent |-> TRUE, url |-> url, notes |-> h1[truncatedObject].notes,
                caller |-> h1.data, builds |-> 1]

\* What fetch and response.json() give.  fetch rejects on a network error; otherwise
\* the response has a status (ok or not) and a body, which is no JSON or a JSON object.
Rejected == [rejected |-> TRUE]
Malformed == [malformed |-> TRUE]
Response(ok, body) == [ok |-> ok, body |-> body]
Null == [null |-> TRUE]                       \* null, getData's failure value
Threw == [threw |-> TRUE]
Returned(v) == [value |-> v]
hasError(body) == "error" \in DOMAIN body
\* result.success !== false
notFalse(body) == "success" \notin DOMAIN body \/ body.success

\* ping(), GoogleSheetsService.js:55-64, once fetch has settled
ping(r) == IF r = Rejected THEN Returned(FALSE) ELSE Returned(r.ok)

\* init(), GoogleSheetsService.js:76-86
init(r) ==
  IF r = Rejected THEN Returned(FALSE)
  ELSE IF r.body = Malformed THEN Returned(FALSE)
  ELSE Returned(notFalse(r.body))

\* getData(), GoogleSheetsService.js:98-114
getData(r) ==
  IF r = Rejected THEN Returned(Null)
  ELSE IF r.body = Malformed THEN Returned(Null)
  ELSE IF hasError(r.body) THEN Returned(Null)
  ELSE Returned(r.body)

\* #executeRequest(url), GoogleSheetsService.js:209-219: it has no try, so a rejected
\* fetch or response.json() rejects its promise
executeRequest(r) ==
  IF r = Rejected THEN Threw
  ELSE IF r.body = Malformed THEN Threw
  ELSE IF hasError(r.body) THEN Returned(FALSE)
  ELSE Returned(notFalse(r.body))

\* `return this.#executeRequest(url)`, GoogleSheetsService.js:194 and 197: the promise
\* is returned without await, so the catch of #pushData (line 198) does not see its
\* rejection, and saveClient, saveSession, deleteClient, deleteSession and syncAll
\* (lines 122-160) reject with it
pushDataSettles(r) == executeRequest(r)

ReadOps == {"ping", "init", "getData"}
PushOps == {"saveClient", "saveSession", "deleteClient", "deleteSession", "syncAll"}
IdleCall == [st |-> "idle"]

\* ping(), init() or getData() called, up to `await fetch(...)` or the unconfigured return
ReadCall(op) ==
  /\ remoteCall.st # "await"
  /\ remoteCall' =
       IF ~configured
       THEN [st |-> "done", op |-> op, sent |-> FALSE,
             ret |-> Returned(IF op = "getData" THEN Null ELSE FALSE)]
       ELSE [st |-> "await", op |-> op, sent |-> TRUE]
  /\ UNCHANGED <<queueVars, mgrVars, merge, histVars, lastRet, calls, lsnVars, notes,
                 maxUrlLength, sheet, storageFault>>

\* the argument #pushData gets: deleteClient(id) and deleteSession(id) pass { id }
pushArgument(op, data) ==
  IF op \in {"deleteClient", "deleteSession"} THEN [id |-> data.id, notes |-> NoNotes] ELSE data

\* saveClient, saveSession, deleteClient, deleteSession or syncAll called, up to
\* `await fetch(url, ...)` in #executeRequest or the return of false
PushCall(op, base, data) ==
  /\ remoteCall.st # "await"
  /\ LET p == pushData(configured, maxUrlLength, base, pushArgument(op, data))
     IN remoteCall' =
          IF p.sent
          THEN [st |-> "await", op |-> op, sent |-> TRUE, data |-> data, base |-> base,
                url |-> p.url, notes |-> p.notes, caller |-> p.caller, builds |-> p.builds]
          ELSE [st |-> "done", op |-> op, sent |-> FALSE, data |-> data, base |-> base,
                caller |-> p.caller, builds |-> p.builds, ret |-> Returned(FALSE)]
  /\ UNCHANGED <<queueVars, mgrVars, merge, histVars, lastRet, calls, lsnVars, notes,
                 maxUrlLength, sheet, storageFault>>

\* the method once fetch (and response.json()) has settled
settles(op, r) ==
  IF op = "ping" THEN ping(r)
  ELSE IF op = "init" THEN init(r)
  ELSE IF op = "getData" THEN getData(r)
  ELSE pushDataSettles(r)

\* the request of the call under study settles and the method returns or raises
RemoteSettles(r) ==
  /\ remoteCall.st = "await"
  /\ remoteCall' = [remoteCall EXCEPT !.st = "done"] @@ [ret |-> settles(remoteCall.op, r), response |-> r]
  /\ UNCHANGED <<queueVars, mgrVars, merge, histVars, lastRet, calls, lsnVars, notes,
                 maxUrlLength, sheet, storageFault>>

\* ---------------------------------------------------- google-apps-script.js
\* The spreadsheet: per kind, the data rows below the header row, in sheet order.
EmptySheet == [clients |-> <<>>, sessions |-> <<>>]
EmptyNotes == Notes(0, 1)                      \* ''

\* the loop `if (data[i][0] === client.id)` of saveClient (google-apps-script.js:331-336)
\* and of deleteClient (411-416): the first data row with that id, or 0; an undefined
\* id equals no cell
rowIndex(rows, id) ==
  IF id # NoId /\ \E i \in DOMAIN rows : rows[i].id = id
  THEN CHOOSE i \in DOMAIN rows : rows[i].id = id /\ \A j \in 1..(i - 1) : rows[j].id # id
  ELSE 0

\* `client.notes || ''`, google-apps-script.js:342
notesOrEmpty(client) ==
  IF "notes" \in DOMAIN client /\ client.notes # NoNotes /\ lengthOf(client.notes) > 0
  THEN client.notes
  ELSE EmptyNotes

\* rowData, google-apps-script.js:338-346 (and 375-384): the columns kept, with
\* `new Date().toISOString()` of the server in the updatedAt column
rowData(client, now) ==
  [id |-> client.id, name |-> client.name, notes |-> notesOrEmpty(client), updatedAt |-> now]

\* saveClient(client), google-apps-script.js:322-358, and saveSession(session), 363-400:
\* the rows of the kind's sheet afterwards
saveClient(rows, client, now) ==
  LET rowIdx == rowIndex(rows, client.id)
  IN IF rowIdx > 0
     THEN [rows EXCEPT ![rowIdx] = rowData(client, now)]
     ELSE Append(rows, rowData(client, now))

\* deleteClient(clientId), google-apps-script.js:405-419, and deleteSession, 424-438
deleteClient_AlwaysSucceeds(rows, clientId) ==
  LET i == rowIndex(rows, clientId)
  IN [rows |-> IF i > 0 THEN SubSeq(rows, 1, i - 1) \o SubSeq(rows, i + 1, Len(rows)) ELSE rows,
      body |-> [success |-> TRUE]]

deleteClient(rows, clientId) ==
  LET i == rowIndex(rows, clientId)
  IN IF i > 0
     THEN [rows |-> SubSeq(rows, 1, i - 1) \o SubSeq(rows, i + 1, Len(rows)),
           body |-> [success |-> TRUE]]
     ELSE [rows |-> rows, body |-> [success |-> FALSE, error |-> TRUE]]

\* syncAll(data), google-apps-script.js:443-493: a sheet is rewritten only when data
\* has the list of its kind; a record's own updatedAt is kept when it has one
syncAllRows(list, now) ==
  [i \in DOMAIN list |->
     [rowData(list[i], now) EXCEPT !.updatedAt =
        IF list[i].updatedAt = Missing THEN now ELSE list[i].updatedAt]]

syncAll(sh, data, now) ==
  [k \in Kinds |-> IF k \in DOMAIN data THEN syncAllRows(data[k], now) ELSE sh[k]]

\* doGet(e), google-apps-script.js:124-180, for the write actions: the sheet afterwards
\* and the JSON body of the response
doGet(sh, action, data, now) ==
  IF action = "saveClient"
  THEN [sheet |-> [sh EXCEPT !.clients = saveClient(@, data, now)], body |-> [success |-> TRUE]]
  ELSE IF action = "saveSession"
  THEN [sheet |-> [sh EXCEPT !.sessions = saveClient(@, data, now)], body |-> [success |-> TRUE]]
  ELSE IF action \in {"deleteClient", "deleteSession"}
  THEN LET k == IF action = "deleteClient" THEN "clients" ELSE "sessions"
       IN IF data.id = NoId
          THEN [sheet |-> sh, body |-> [error |-> TRUE]]
          ELSE [sheet |-> [sh EXCEPT ![k] = deleteClient(sh[k], data.id).rows],
                body |-> deleteClient(sh[k], data.id).body]
  ELSE IF action = "syncAll"
  THEN [sheet |-> syncAll(sh, data, now), body |-> [success |-> TRUE]]
  ELSE [sheet |-> sh, body |-> [error |-> TRUE]]

\* getClients(), google-apps-script.js:235-259, and getSessions(), 264-300: a row with
\* an empty id cell is skipped
getClients(rows) == SelectSeq(rows, LAMBDA row : row.id # NoId)

\* getAllData(), google-apps-script.js:222-230
getAllData(sh) == [clients |-> getClients(sh.clients), sessions |-> getClients(sh.sessions)]

\* ------------------------------------------------------------- SyncManager
KnownActions == {"saveClient", "saveSession", "deleteClient", "deleteSession", "syncAll"}
IdlePush == [st |-> "idle"]
IdleCycle == [pc |-> "idle"]
IsSnapshot(d) == {"clients", "sessions"} \subseteq DOMAIN d

\* #executePush(action, data), part_002:370-386, with #pushData's isConfigured test
\* (GoogleSheetsService.js:169): is a request sent at all?
sends_AnyAction(cfg, action) == cfg

sends_Unconfigured(cfg, action) == action \in KnownActions

sends(cfg, action) == cfg /\ action \in KnownActions

\* the handler #processQueue gives to process (part_002:348-350), called on the
\* current item of pass p
withHandler(S, p, cfg) ==
  IF S.passes[p].st = "await"
  THEN [S EXCEPT !.passes[p].sent = sends(cfg, S.passes[p].arr[S.passes[p].idx].action)]
  ELSE S

\* #getConnectionStatusText(), part_002:392-402, as (wording, queue length shown)
StatusText(text, n) == [text |-> text, n |-> n]
getConnectionStatusText(online, length) ==
  IF ~online THEN StatusText("offline", 0)
  ELSE IF length > 0 THEN StatusText("queue", length)
  ELSE StatusText("connected", 0)

\* #notifyConnectionChange(isOnline, statusText), part_002:409-417: every callback is
\* invoked in registration order; one that throws is caught and the next still runs
notifyConnectionChange_StopsAtThrow(listeners, online, statusText) ==
  [i \in {j \in DOMAIN listeners : \A k \in 1..(j - 1) : ~listeners[k]} |->
     [to |-> "connection", listener |-> i, isOnline |-> online, statusText |-> statusText]]

notifyConnectionChange(listeners, online, statusText) ==
  [i \in DOMAIN listeners |->
     [to |-> "connection", listener |-> i, isOnline |-> online, statusText |-> statusText]]

\* #notifySyncComplete(data), part_002:423-431, likewise
notifySyncComplete_StopsAtThrow(listeners, data) ==
  [i \in {j \in DOMAIN listeners : \A k \in 1..(j - 1) : ~listeners[k]} |->
     [to |-> "sync", listener |-> i, data |-> data]]

notifySyncComplete(listeners, data) ==
  [i \in DOMAIN listeners |-> [to |-> "sync", listener |-> i, data |-> data]]

Quiet == notes' = <<>> /\ UNCHANGED lsnVars

FreePass == CHOOSE p \in PassIds : passes[p].st = "idle" /\ \A q \in PassIds : passes[q].st = "idle" => p <= q
FreePush == CHOOSE p \in PushIds : pushes[p].st = "idle" /\ \A q \in PushIds : pushes[q].st = "idle" => p <= q
HasFreePass == \E p \in PassIds : passes[p].st = "idle"
HasFreePush == \E p \in PushIds : pushes[p].st = "idle"

\* one more call of a public method, within the budget of the behaviour
Called == calls < MaxCalls /\ calls' = calls + 1

\* checkConnection(), part_002:98-119
CheckConnection ==
  /\ Called
  /\ UNCHANGED <<adapterVars, storageFault>>
  /\ probe = "idle"
  /\ IF ~configured
     THEN /\ isOnline' = FALSE
          /\ probe' = probe
          /\ lastRet' = [op |-> "checkConnection", value |-> FALSE]
     ELSE /\ probe' = "await"
          /\ isOnline' = isOnline
          /\ lastRet' = NoRet
  /\ UNCHANGED <<queueVars, isSyncing, configured, pushes, cycle, timers, merge, histVars>>
  /\ UNCHANGED lsnVars
  /\ notes' = IF ~configured
              THEN notifyConnectionChange(connectionListeners, FALSE, StatusText("local", 0))
              ELSE notifyConnectionChange(connectionListeners, FALSE, StatusText("connecting", 0))

\* `if (isConnected) { this.#isOnline = true; ... } else { this.#isOnline = false; ... }`,
\* part_002:109-116
onlineAfterPing_NeverOffline(was, isConnected) == was \/ isConnected

onlineAfterPing(was, isConnected) == isConnected

\* checkConnection after `await this.#googleSheets.ping()`, part_002:107-118
CheckConnectionResume(isConnected) ==
  /\ calls' = calls
  /\ UNCHANGED <<adapterVars, storageFault>>
  /\ probe = "await"
  /\ probe' = "idle"
  /\ isOnline' = onlineAfterPing(isOnline, isConnected)
  /\ lastRet' = [op |-> "checkConnection", value |-> isOnline']
  /\ UNCHANGED <<queueVars, isSyncing, configured, pushes, cycle, timers, merge, histVars>>
  /\ UNCHANGED lsnVars
  /\ notes' = notifyConnectionChange(connectionListeners, isConnected,
                                     getConnectionStatusText(isOnline', Len(queue)))

\* onConnectionChange(callback), part_002:82-84
OnConnectionChange(throws) ==
  /\ Called
  /\ UNCHANGED <<adapterVars, storageFault>>
  /\ Len(connectionListeners) < MaxListeners
  /\ connectionListeners' = Append(connectionListeners, throws)
  /\ syncListeners' = syncListeners
  /\ notes' = <<>>
  /\ lastRet' = NoRet
  /\ UNCHANGED <<queueVars, mgrVars, merge, histVars>>

\* onSyncComplete(callback), part_002:90-92
OnSyncComplete(throws) ==
  /\ Called
  /\ UNCHANGED <<adapterVars, storageFault>>
  /\ Len(syncListeners) < MaxListeners
  /\ syncListeners' = Append(syncListeners, throws)
  /\ connectionListeners' = connectionListeners
  /\ notes' = <<>>
  /\ lastRet' = NoRet
  /\ UNCHANGED <<queueVars, mgrVars, merge, histVars>>

\* setScriptUrl(url), part_002:74-76
SetScriptUrl(nonEmpty) ==
  /\ Called
  /\ UNCHANGED <<adapterVars, storageFault>>
  /\ configured' = nonEmpty
  /\ lastRet' = NoRet
  /\ UNCHANGED <<queueVars, isOnline, isSyncing, pushes, cycle, probe, timers, merge, histVars>>
  /\ Quiet

\* trackDeleted(type, id), part_002:201-203
TrackDeleted(type, id) ==
  /\ Called
  /\ UNCHANGED <<adapterVars, storageFault>>
  /\ CommitIf(QS, addDeletedId(deletedIds, type, id), addDeletedIdSaves(deletedIds, type, id))
  /\ lastRet' = NoRet
  /\ UNCHANGED <<mgrVars, merge, histVars>>
  /\ Quiet

\* clearQueue(), part_002:222-224 -> clearAll(), part_001:106-110
ClearQueue ==
  /\ Called
  /\ UNCHANGED <<adapterVars, storageFault>>
  /\ Commit(clearAll(QS, deletedIds).S, clearAll(QS, deletedIds).D)
  /\ CommitHist(clearAll(QS, deletedIds).S)
  /\ lastRet' = NoRet
  /\ UNCHANGED <<mgrVars, merge, appliedOk>>
  /\ Quiet

\* `this.#isOnline && this.#googleSheets.isConfigured`, part_002:178
pushesNow_IgnoresConfig == isOnline

pushesNow == isOnline /\ configured

\* pushChange(action, data), part_002:173-194, up to the await or the offline return
PushChange(action, data) ==
  /\ Called
  /\ UNCHANGED <<adapterVars, storageFault>>
  /\ clock < MaxClock
  /\ pushesNow => HasFreePush
  /\ Commit(add(QS, action, data), deletedIds)
  /\ CommitHist(add(QS, action, data))
  /\ IF pushesNow
     THEN /\ pushes' = [pushes EXCEPT ![FreePush] =
                          [st |-> "await", action |-> action, data |-> data,
                           stamp |-> clock + 1, sent |-> sends(configured, action)]]
          /\ lastRet' = NoRet
     ELSE /\ pushes' = pushes
          /\ lastRet' = [op |-> "pushChange", success |-> FALSE, queued |-> TRUE,
                         attempted |-> FALSE]
  /\ UNCHANGED <<isOnline, isSyncing, configured, cycle, probe, timers, merge, appliedOk>>
  /\ Quiet

\* #isOnline once pushChange has its result, part_002:181-190: neither branch assigns it
onlineAfterPush_OfflineOnFailure(was, success) == was /\ success

onlineAfterPush(was, success) == was

\* pushChange after `await this.#executePush(action, data)`, part_002:181-190
PushChangeResume(p, success) ==
  /\ calls' = calls
  /\ UNCHANGED <<adapterVars, storageFault>>
  /\ pushes[p].st = "await"
  /\ success => pushes[p].sent
  /\ pushes' = [pushes EXCEPT ![p] = IdlePush]
  /\ IF success
     THEN /\ Commit(removeById(QS, pushes[p].data.id), deletedIds)
          /\ appliedOk' = appliedOk \cup {[action |-> pushes[p].action, data |-> pushes[p].data,
                                            timestamp |-> pushes[p].stamp]}
          /\ lastRet' = [op |-> "pushChange", success |-> TRUE, queued |-> FALSE,
                         attempted |-> TRUE]
     ELSE /\ UNCHANGED <<queueVars, appliedOk>>
          /\ lastRet' = [op |-> "pushChange", success |-> FALSE, queued |-> TRUE,
                         attempted |-> TRUE]
  /\ isOnline' = onlineAfterPush(isOnline, success)
  /\ UNCHANGED <<isSyncing, configured, cycle, probe, timers, merge, superseded, cleared>>
  /\ UNCHANGED lsnVars
  /\ notes' = notifyConnectionChange(connectionListeners, TRUE,
                                     getConnectionStatusText(isOnline, Len(queue')))

\* pushChange when `await this.#executePush(action, data)` rejects: #pushData returns
\* #executeRequest's promise without awaiting it (GoogleSheetsService.js:194-197), so a
\* failed fetch or an unparseable response escapes its try/catch, and pushChange
\* (part_002:179, no try) rejects too, leaving the queue as it is
PushChangeRejects(p) ==
  /\ calls' = calls
  /\ UNCHANGED <<adapterVars, storageFault>>
  /\ pushes[p].st = "await"
  /\ pushes[p].sent
  /\ pushes' = [pushes EXCEPT ![p] = IdlePush]
  /\ lastRet' = [op |-> "pushChange", threw |-> TRUE]
  /\ UNCHANGED <<queueVars, isOnline, isSyncing, configured, cycle, probe, timers, merge, histVars>>
  /\ Quiet

\* the page is closed or crashes and the application starts again: every call in
\* flight and every timer is gone, and the constructors run (part_002:26-36, which
\* builds the queue, part_001:20-29, from localStorage)
Restart ==
  /\ calls' = calls
  /\ UNCHANGED <<adapterVars, storageFault>>
  /\ queue' = load(stQueue, stDeleted).queue
  /\ deletedIds' = load(stQueue, stDeleted).deletedIds
  /\ passes' = [p \in PassIds |-> IdlePass]
  /\ pushes' = [p \in PushIds |-> IdlePush]
  /\ cycle' = IdleCycle
  /\ probe' = "idle"
  /\ timers' = 0
  /\ isOnline' = FALSE
  /\ isSyncing' = FALSE
  /\ lastRet' = [op |-> "restart"]
  /\ UNCHANGED <<stQueue, stDeleted, clock, configured, merge, histVars>>
  /\ connectionListeners' = <<>>
  /\ syncListeners' = <<>>
  /\ notes' = <<>>

\* #processQueue(), part_002:341-362: does it call process at all?
drains == queue # <<>> /\ isOnline

\* the guard of sync, part_002:128
refused_IgnoresSyncing == ~isOnline \/ ~configured

refused_IgnoresConfig == ~isOnline \/ isSyncing

refused == ~isOnline \/ ~configured \/ isSyncing

\* sync(localClients, localSessions) refused by its guard, part_002:128-130
SyncRefused ==
  /\ Called
  /\ UNCHANGED <<adapterVars, storageFault>>
  /\ refused
  /\ lastRet' = [op |-> "sync", value |-> Null]
  /\ UNCHANGED <<queueVars, mgrVars, merge, histVars>>
  /\ Quiet

\* sync(localClients, localSessions), part_002:127-139, up to its first await
Sync(localClients, localSessions) ==
  /\ Called
  /\ UNCHANGED <<adapterVars, storageFault>>
  /\ ~refused
  /\ isSyncing' = TRUE
  /\ lastRet' = NoRet
  /\ IF drains
     THEN /\ HasFreePass
          /\ passes' = withHandler(processStart(QS, FreePass, "sync"), FreePass, configured).passes
          /\ cycle' = [pc |-> "drain", localClients |-> localClients,
                       localSessions |-> localSessions, sent |-> FALSE, log |-> <<"apply">>]
     ELSE /\ passes' = passes
          /\ cycle' = [pc |-> "init", localClients |-> localClients,
                       localSessions |-> localSessions, sent |-> configured, log |-> <<"init">>]
  /\ UNCHANGED <<queue, deletedIds, stQueue, stDeleted, clock, isOnline, configured, pushes,
                 probe, timers, merge, histVars>>
  /\ Quiet

\* the guard of forceProcessQueue, part_002:210
forceRefused_IgnoresSyncing == ~isOnline

forceRefused == ~isOnline \/ isSyncing

\* forceProcessQueue(), part_002:209-217, up to its first await or its early return
ForceProcessQueue ==
  /\ Called
  /\ UNCHANGED <<adapterVars, storageFault>>
  /\ IF forceRefused
     THEN /\ lastRet' = [op |-> "forceProcessQueue", successful |-> 0, failed |-> Len(queue)]
          /\ passes' = passes
     ELSE IF ~drains
          THEN /\ lastRet' = [op |-> "forceProcessQueue", successful |-> 0, failed |-> 0]
               /\ passes' = passes
          ELSE /\ HasFreePass
               /\ passes' = withHandler(processStart(QS, FreePass, "force"), FreePass, configured).passes
               /\ lastRet' = NoRet
  /\ UNCHANGED <<queue, deletedIds, stQueue, stDeleted, clock, mgrVars, merge, histVars>>
  /\ UNCHANGED lsnVars
  /\ notes' = IF ~forceRefused /\ ~drains
              THEN notifyConnectionChange(connectionListeners, TRUE,
                                          getConnectionStatusText(isOnline, Len(queue)))
              ELSE <<>>

\* the callback of setTimeout(() => this.#processQueue(), 100), part_002:331
TimerFires ==
  /\ calls' = calls
  /\ UNCHANGED <<adapterVars, storageFault>>
  /\ timers > 0
  /\ timers' = timers - 1
  /\ lastRet' = NoRet
  /\ IF drains
     THEN /\ HasFreePass
          /\ passes' = withHandler(processStart(QS, FreePass, "timer"), FreePass, configured).passes
     ELSE passes' = passes
  /\ UNCHANGED <<queue, deletedIds, stQueue, stDeleted, clock, isOnline, isSyncing, configured,
                 pushes, cycle, probe, merge, histVars>>
  /\ Quiet

\* a pass of #processQueue after `await handler(item)`: the next item, or the end of
\* process and what its caller does next (sync: part_002:139; force: part_002:215-216)
DrainResume(p, success) ==
  /\ calls' = calls
  /\ UNCHANGED <<adapterVars, storageFault>>
  /\ passes[p].st = "await"
  /\ passes[p].owner # "queue"
  /\ success => passes[p].sent
  /\ LET ps == passes[p]
         S == withHandler(processResume(QS, p, success), p, configured)
     IN /\ appliedOk' = IF success THEN appliedOk \cup {ps.arr[ps.idx]} ELSE appliedOk
        /\ IF processEnds(ps)
           THEN /\ Commit(S, deletedIds)
                /\ cycle' = IF ps.owner = "sync"
                            THEN [cycle EXCEPT !.pc = "init", !.sent = configured,
                                               !.log = Append(@, "init")]
                            ELSE cycle
                /\ lastRet' = IF ps.owner = "force"
                              THEN [op |-> "forceProcessQueue",
                                    successful |-> Len(processLists(ps, success).successful),
                                    failed |-> Len(processLists(ps, success).failed)]
                              ELSE NoRet
           ELSE /\ passes' = S.passes
                /\ cycle' = IF ps.owner = "sync"
                            THEN [cycle EXCEPT !.log = Append(@, "apply")]
                            ELSE cycle
                /\ lastRet' = NoRet
                /\ UNCHANGED <<queue, deletedIds, stQueue, stDeleted, clock>>
  /\ UNCHANGED <<isOnline, isSyncing, configured, pushes, probe, timers, merge, superseded, cleared>>
  /\ UNCHANGED lsnVars
  /\ notes' = IF processEnds(passes[p]) /\ passes[p].owner = "force"
              THEN notifyConnectionChange(connectionListeners, TRUE,
                                          getConnectionStatusText(isOnline, Len(queue')))
              ELSE <<>>

\* sync after `await this.#googleSheets.init()`: getData is called, part_002:139-142
SyncInitResume ==
  /\ calls' = calls
  /\ UNCHANGED <<adapterVars, storageFault>>
  /\ cycle.pc = "init"
  /\ cycle' = [cycle EXCEPT !.pc = "fetch", !.sent = configured, !.log = Append(@, "fetch")]
  /\ lastRet' = NoRet
  /\ UNCHANGED <<queueVars, isOnline, isSyncing, configured, pushes, probe, timers, merge, histVars>>
  /\ Quiet

\* `finally { this.#isSyncing = false; }`, part_002:162-164, whatever sync returns
finally_OnlyOnSuccess(returned) == returned = Null

finally_Never(returned) == TRUE

finally(returned) == FALSE

\* sync after `await this.#googleSheets.getData()`, part_002:142-164: the failed fetch,
\* or the merge, the notifications and the return
SyncFetchResume(remoteData) ==
  /\ calls' = calls
  /\ UNCHANGED <<adapterVars, storageFault>>
  /\ cycle.pc = "fetch"
  /\ ~cycle.sent => remoteData = Null
  /\ cycle' = IdleCycle
  /\ IF ~IsSnapshot(remoteData)
          \/ mergeThrows(remoteData, cycle.localClients, cycle.localSessions)
     THEN /\ lastRet' = [op |-> "sync", value |-> Null, fetched |-> remoteData]
          /\ UNCHANGED <<queueVars, timers, superseded, cleared>>
     ELSE \E m \in {mergeData(QS, deletedIds, isOnline, remoteData,
                               cycle.localClients, cycle.localSessions)} :
             /\ m.S.clock <= MaxClock
             /\ m.scheduled => timers < MaxTimers
             /\ Commit(m.S, deletedIds)
             /\ CommitHist(m.S)
             /\ timers' = IF m.scheduled THEN timers + 1 ELSE timers
             /\ lastRet' = [op |-> "sync", value |-> m.result, fetched |-> remoteData,
                            events |-> cycle.log \o <<"merge", "notify">>]
  /\ isSyncing' = finally(lastRet'.value)
  /\ UNCHANGED <<isOnline, configured, pushes, probe, merge, appliedOk>>
  /\ UNCHANGED lsnVars
  /\ notes' = IF lastRet'.value = Null THEN <<>>
              ELSE notifySyncComplete(syncListeners, lastRet'.value)
                     \o notifyConnectionChange(connectionListeners, TRUE,
                                               getConnectionStatusText(isOnline, Len(queue')))

\* mergeData called directly (it is public), part_002:234-335
MergeData(remoteData, localClients, localSessions) ==
  /\ Called
  /\ UNCHANGED <<adapterVars, storageFault>>
  /\ merge = NoMerge
  /\ \E m \in {mergeData(QS, deletedIds, isOnline, remoteData, localClients, localSessions)} :
        /\ m.scheduled => timers < MaxTimers
        /\ Commit(m.S, deletedIds)
        /\ CommitHist(m.S)
        /\ timers' = IF m.scheduled THEN timers + 1 ELSE timers
        /\ merge' = [st |-> "done", remote |-> remoteData, clients |-> localClients,
                     sessions |-> localSessions, deleted |-> deletedIds,
                     online |-> isOnline, result |-> m.result,
                     array |-> m.array, after |-> m.inputs]
  /\ lastRet' = NoRet
  /\ UNCHANGED <<isOnline, isSyncing, configured, pushes, cycle, probe, appliedOk>>
  /\ Quiet

\* ------------------------------------------------ the Queue used on its own
QInputs ==
  {<<"saveClient", Rec(i, 1, "A")>> : i \in Ids \cup {NoId}}
    \cup {<<"deleteClient", Rec(1, 1, "B")>>, <<"syncAll", Rec(NoId, 1, "B")>>}
Outcomes == {"true", "false", "throw"}     \* handler resolves true / false, or rejects

QAdd(action, data) ==
  /\ calls' = calls
  /\ UNCHANGED <<adapterVars, storageFault>>
  /\ clock < MaxClock
  /\ Commit(add(QS, action, data), deletedIds)
  /\ lastRet' = afterSave(storageFault,
                          [op |-> "add",
                           deduped |-> \E i \in DOMAIN queue : EntryId(queue[i]) = data.id])
  /\ UNCHANGED <<mgrVars, merge, histVars>>
  /\ Quiet

QRemoveById(id) ==
  /\ calls' = calls
  /\ UNCHANGED <<adapterVars, storageFault>>
  /\ Commit(removeById(QS, id), deletedIds)
  /\ lastRet' = afterSave(storageFault, [op |-> "removeById"])
  /\ UNCHANGED <<mgrVars, merge, histVars>>
  /\ Quiet

QRemoveItems(idxs) ==
  /\ calls' = calls
  /\ UNCHANGED <<adapterVars, storageFault>>
  /\ idxs # {}
  /\ Commit(removeItems(QS, SelectSeq(queue, LAMBDA e : \E i \in idxs : queue[i] = e)), deletedIds)
  /\ lastRet' = afterSave(storageFault, [op |-> "removeItems"])
  /\ UNCHANGED <<mgrVars, merge, histVars>>
  /\ Quiet

QClear ==
  /\ calls' = calls
  /\ UNCHANGED <<adapterVars, storageFault>>
  /\ Commit(clear(QS), deletedIds)
  /\ lastRet' = afterSave(storageFault, [op |-> "clear"])
  /\ UNCHANGED <<mgrVars, merge, histVars>>
  /\ Quiet

QClearAll ==
  /\ calls' = calls
  /\ UNCHANGED <<adapterVars, storageFault>>
  /\ Commit(clearAll(QS, deletedIds).S, clearAll(QS, deletedIds).D)
  /\ lastRet' = afterSave(storageFault, [op |-> "clearAll"])
  /\ UNCHANGED <<mgrVars, merge, histVars>>
  /\ Quiet

\* addDeletedId(type, id), part_001:125-134
QAddDeletedId(type, id) ==
  /\ calls' = calls
  /\ UNCHANGED <<adapterVars, storageFault>>
  /\ CommitIf(QS, addDeletedId(deletedIds, type, id), addDeletedIdSaves(deletedIds, type, id))
  /\ lastRet' = IF addDeletedIdSaves(deletedIds, type, id)
                THEN afterSave(storageFault, [op |-> "addDeletedId"])
                ELSE [op |-> "addDeletedId"]
  /\ UNCHANGED <<mgrVars, merge, histVars>>
  /\ Quiet

\* clearDeletedIds(), part_001:158-161
QClearDeletedIds ==
  /\ calls' = calls
  /\ UNCHANGED <<adapterVars, storageFault>>
  /\ Commit(clearDeletedIds(QS, deletedIds).S, clearDeletedIds(QS, deletedIds).D)
  /\ lastRet' = afterSave(storageFault, [op |-> "clearDeletedIds"])
  /\ UNCHANGED <<mgrVars, merge, histVars>>
  /\ Quiet

\* new SyncQueueService() on the same storage keys, part_001:20-29: whatever the old
\* object was doing is of no account to the new one
QConstruct(getItemThrows) ==
  /\ calls' = calls
  /\ UNCHANGED <<adapterVars, storageFault>>
  /\ queue' = loadFrom(getItemThrows, stQueue, stDeleted).queue
  /\ deletedIds' = loadFrom(getItemThrows, stQueue, stDeleted).deletedIds
  /\ passes' = [p \in PassIds |-> IdlePass]
  /\ lastRet' = [op |-> "constructor", getItemThrows |-> getItemThrows]
  /\ UNCHANGED <<stQueue, stDeleted, clock, mgrVars, merge, histVars>>
  /\ Quiet

\* localStorage starts or stops throwing (quota exceeded, storage disabled)
StorageFault(fault) ==
  /\ storageFault # fault
  /\ storageFault' = fault
  /\ lastRet' = NoRet
  /\ notes' = <<>>
  /\ UNCHANGED <<queueVars, mgrVars, merge, histVars, calls, lsnVars, adapterVars>>

\* something else leaves under the queue's key a text that is no JSON
StorageCorrupted ==
  /\ stQueue # Corrupt
  /\ stQueue' = Corrupt
  /\ lastRet' = NoRet
  /\ notes' = <<>>
  /\ UNCHANGED <<queue, deletedIds, stDeleted, clock, passes, mgrVars, merge, histVars, calls,
                 lsnVars, adapterVars, storageFault>>

\* process(handler) called on an empty queue returns at once
QProcessEmpty ==
  /\ calls' = calls
  /\ UNCHANGED <<adapterVars, storageFault>>
  /\ queue = <<>>
  /\ Commit([QS EXCEPT !.passes = Reassigned(passes)], deletedIds)
  /\ lastRet' = afterSave(storageFault,
                          [op |-> "process", owner |-> "queue", successful |-> <<>>,
                           failed |-> <<>>, calls |-> <<>>, clean |-> TRUE])
  /\ UNCHANGED <<mgrVars, merge, histVars>>
  /\ Quiet

QProcessStart(p) ==
  /\ calls' = calls
  /\ UNCHANGED <<adapterVars, storageFault>>
  /\ queue # <<>>
  /\ passes[p].st = "idle"
  /\ passes' = processStart(QS, p, "queue").passes
  /\ lastRet' = NoRet
  /\ UNCHANGED <<queue, deletedIds, stQueue, stDeleted, clock, mgrVars, merge, histVars>>
  /\ Quiet

QProcessResume(p, outcome) ==
  /\ calls' = calls
  /\ UNCHANGED <<adapterVars, storageFault>>
  /\ passes[p].st = "await"
  /\ passes[p].owner = "queue"
  /\ LET ps == passes[p]
         ok == outcome = "true"
     IN /\ IF processEnds(ps)
           THEN /\ Commit(processResume(QS, p, ok), deletedIds)
                /\ lastRet' = afterSave(storageFault, processRet(ps, ok))
           ELSE /\ passes' = processResume(QS, p, ok).passes
                /\ lastRet' = NoRet
                /\ UNCHANGED <<queue, deletedIds, stQueue, stDeleted, clock>>
  /\ UNCHANGED <<mgrVars, merge, histVars>>
  /\ Quiet

InitQueue ==
  /\ queue = <<>>
  /\ deletedIds = EmptyDeleted
  /\ stQueue = <<>>
  /\ stDeleted = EmptyDeleted
  /\ clock = 0
  /\ passes = [p \in PassIds |-> IdlePass]
  /\ appliedOk = {}
  /\ superseded = {}
  /\ cleared = {}
  /\ lastRet = NoRet

InitMgr ==
  /\ isOnline = FALSE
  /\ isSyncing = FALSE
  /\ configured \in BOOLEAN
  /\ pushes = [p \in PushIds |-> [st |-> "idle"]]
  /\ cycle = [pc |-> "idle"]
  /\ probe = "idle"
  /\ timers = 0
  /\ calls = 0
  /\ connectionListeners = <<>>
  /\ syncListeners = <<>>
  /\ notes = <<>>
  /\ remoteCall = IdleCall
  /\ storageFault = NoFault
  /\ sheet = EmptySheet

InitQ ==
  /\ InitQueue
  /\ InitMgr
  /\ configured = FALSE
  /\ maxUrlLength = DefaultMaxUrlLength
  /\ merge = NoMerge

NextQ ==
  \/ \E x \in QInputs : QAdd(x[1], x[2])
  \/ \E i \in Ids \cup {NoId} : QRemoveById(i)
  \/ \E idxs \in SUBSET (DOMAIN queue) : QRemoveItems(idxs)
  \/ QClear
  \/ QClearAll
  \/ QProcessEmpty
  \/ \E p \in PassIds : QProcessStart(p)
  \/ \E p \in PassIds, o \in Outcomes : QProcessResume(p, o)

SpecQueue == InitQ /\ [][NextQ]_vars

\* ------------------------------- the Queue and localStorage, which may throw
StorageAdds == {<<"saveClient", Rec(1, 1, "A")>>, <<"syncAll", Rec(NoId, 1, "A")>>}
StorageDeletes == {<<"clients", 1>>, <<"sessions", 1>>}
Faults == {NoFault, "setQueue", "setDeleted"}

NextS ==
  \/ \E x \in StorageAdds : QAdd(x[1], x[2])
  \/ \E i \in {1, NoId} : QRemoveById(i)
  \/ \E idxs \in SUBSET (DOMAIN queue) : QRemoveItems(idxs)
  \/ QClear
  \/ QClearAll
  \/ \E x \in StorageDeletes : QAddDeletedId(x[1], x[2])
  \/ QClearDeletedIds
  \/ QProcessEmpty
  \/ QProcessStart(1)
  \/ \E o \in Outcomes : QProcessResume(1, o)
  \/ \E t \in BOOLEAN : QConstruct(t)
  \/ \E f \in Faults : StorageFault(f)
  \/ StorageCorrupted

SpecStorage == InitQ /\ [][NextS]_vars

\* ------------------------------------- the clearing methods, and clearQueue
NextC ==
  \/ \E x \in StorageAdds : QAdd(x[1], x[2])
  \/ \E x \in StorageDeletes : QAddDeletedId(x[1], x[2])
  \/ QClear
  \/ QClearDeletedIds
  \/ QClearAll
  \/ ClearQueue

SpecClear == InitQ /\ [][NextC]_vars

\* -------------------------------------------------- mergeData used on its own
Lists(n) == [1..n -> Records]
\* the (local list, remote list) pairs of one kind holding MaxItems records in all
ListPairs ==
  UNION {Lists(x[1]) \X Lists(x[2]) :
           x \in {y \in (0..MaxItems) \X (0..MaxItems) : y[1] + y[2] <= MaxItems}}
\* the lists of the other kind
FewPairs == {<<(<<>>), (<<>>)>>, <<(<<Rec(1, 1, "A")>>), (<<Rec(1, 2, "B")>>)>>}
MergeInputs ==
  {[remote |-> [clients |-> c[2], sessions |-> s[2]], clients |-> c[1], sessions |-> s[1]] :
     c \in ListPairs, s \in FewPairs}
  \cup
  {[remote |-> [clients |-> c[2], sessions |-> s[2]], clients |-> c[1], sessions |-> s[1]] :
     c \in FewPairs, s \in ListPairs}
TrackInputs == {<<"clients", 1>>, <<"clients", 2>>, <<"sessions", 1>>}
\* a change pushed while offline, so that the merge finds an entry queued
QueuedBefore == {<<"deleteClient", Rec(2, 1, "A")>>}

InitM ==
  /\ InitQueue
  /\ InitMgr
  /\ configured = TRUE
  /\ maxUrlLength = DefaultMaxUrlLength
  /\ merge = NoMerge

NextM ==
  \/ merge = NoMerge /\ CheckConnection
  \/ merge = NoMerge /\ \E r \in BOOLEAN : CheckConnectionResume(r)
  \/ merge = NoMerge /\ \E x \in TrackInputs : TrackDeleted(x[1], x[2])
  \/ merge = NoMerge /\ ClearQueue
  \/ merge = NoMerge /\ ~isOnline /\ queue = <<>> /\ \E x \in QueuedBefore : PushChange(x[1], x[2])
  \/ merge = NoMerge /\ \E x \in MergeInputs : MergeData(x.remote, x.clients, x.sessions)

SpecMerge == InitM /\ [][NextM]_vars

\* ------------------------------------------------------- the orchestrator
PushInputs ==
  {<<"saveClient", Rec(1, 1, "A")>>, <<"saveClient", Rec(1, 2, "B")>>,
   <<"deleteSession", Rec(2, 1, "A")>>, <<"syncAll", Rec(NoId, 1, "A")>>,
   <<"renameClient", Rec(2, 2, "B")>>}
SyncInputs ==
  {<<(<<>>), (<<>>)>>, <<(<<Rec(1, 2, "A")>>), (<<Rec(2, 1, "A")>>)>>, <<(<<>>), NotAnArray>>}
DeleteInputs == {<<"clients", 1>>, <<"clients", 2>>, <<"sessions", 2>>}
FetchResults ==
  {Null, [clients |-> <<>>], [sessions |-> <<Rec(2, 1, "A")>>],
   [clients |-> NotAnArray, sessions |-> <<>>],
   [clients |-> <<Rec(1, 1, "B")>>, sessions |-> <<Rec(2, 1, "A")>>]}

Init ==
  /\ InitQueue
  /\ InitMgr
  /\ maxUrlLength = DefaultMaxUrlLength
  /\ merge = NoMerge

Next ==
  \/ \E t \in BOOLEAN : OnConnectionChange(t)
  \/ \E t \in BOOLEAN : OnSyncComplete(t)
  \/ CheckConnection
  \/ \E r \in BOOLEAN : CheckConnectionResume(r)
  \/ \E b \in BOOLEAN : SetScriptUrl(b)
  \/ \E x \in DeleteInputs : TrackDeleted(x[1], x[2])
  \/ ClearQueue
  \/ \E x \in PushInputs : PushChange(x[1], x[2])
  \/ \E p \in PushIds, r \in BOOLEAN : PushChangeResume(p, r)
  \/ \E p \in PushIds : PushChangeRejects(p)
  \/ Restart
  \/ SyncRefused
  \/ \E x \in SyncInputs : Sync(x[1], x[2])
  \/ ForceProcessQueue
  \/ TimerFires
  \/ \E p \in PassIds, r \in BOOLEAN : DrainResume(p, r)
  \/ SyncInitResume
  \/ \E d \in FetchResults : SyncFetchResume(d)

Spec == Init /\ [][Next]_vars

\* ----------------------------------------------- the Remote Adapter on its own
\* the budgets of `new GoogleSheetsService(TEST_URL, n)`: the default, and those of
\* part_003:442 and part_003:463
MaxUrlLengths == {DefaultMaxUrlLength, 300, 50}
\* the length of the URL before the notes: short, and with long other fields
Bases == {100, 700}
NotesInputs ==
  {NoNotes, Notes(0, 1), Notes(150, 1), Notes(450, 1), Notes(500, 1), Notes(501, 1),
   Notes(600, 1), Notes(300, 6), Notes(600, 6)}
AdapterData == {[id |-> 1, notes |-> n] : n \in NotesInputs}
Bodies ==
  {Malformed, [success |-> TRUE], [success |-> FALSE, error |-> TRUE], [error |-> TRUE],
   [message |-> TRUE], [clients |-> <<>>, sessions |-> <<>>]}
Responses == {Rejected} \cup {Response(ok, b) : ok \in BOOLEAN, b \in Bodies}

InitA ==
  /\ InitQueue
  /\ InitMgr
  /\ maxUrlLength \in MaxUrlLengths
  /\ merge = NoMerge

NextA ==
  \/ \E op \in ReadOps : ReadCall(op)
  \/ \E op \in PushOps, base \in Bases, data \in AdapterData : PushCall(op, base, data)
  \/ \E r \in Responses : RemoteSettles(r)

SpecAdapter == InitA /\ [][NextA]_vars

\* ------------------------------------- mergeData on records without a date
\* updatedAt missing, unparseable, or one of two instants
Dates == {Missing, Invalid} \cup Times
\* one local and one remote record of the same id, per kind
DatedPairs == {<<(<<Rec(1, l, "A")>>), (<<Rec(1, r, "B")>>)>> : l \in Dates, r \in Dates}
DatedInputs ==
  {[remote |-> [clients |-> c[2], sessions |-> s[2]], clients |-> c[1], sessions |-> s[1]] :
     c \in DatedPairs, s \in DatedPairs}

NextD ==
  \E x \in DatedInputs : MergeData(x.remote, x.clients, x.sessions)

SpecDates == InitM /\ [][NextD]_vars

\* ------------------------------- the orchestrator draining to the spreadsheet
\* the length of a request URL before the notes
RemoteBase == 100
\* the server's clock at a request: that of the record's last local change, or later
ServerTimes == {1, 2}
RRec(i, t, n, str) == [id |-> i, updatedAt |-> t, name |-> n, notes |-> str]
RemoteInputs ==
  {<<"saveClient", RRec(1, 1, "A", Notes(150, 1))>>,
   <<"saveSession", RRec(1, 1, "B", EmptyNotes)>>,
   <<"deleteClient", RRec(1, 1, "A", EmptyNotes)>>,
   <<"deleteSession", RRec(2, 1, "A", EmptyNotes)>>,
   <<"syncAll", RRec(NoId, 1, "A", NoNotes)>>,
   <<"saveClient", RRec(2, 1, "A", Notes(501, 1))>>}
\* the queues that one or two add calls leave
NewQueue ==
  [queue |-> <<>>, passes |-> [p \in PassIds |-> IdlePass], clock |-> 0,
   superseded |-> {}, cleared |-> {}]
RemoteQueues ==
  {add(NewQueue, x[1], x[2]).queue : x \in RemoteInputs}
  \cup {add(add(NewQueue, x[1], x[2]), y[1], y[2]).queue : x \in RemoteInputs, y \in RemoteInputs}
\* the sheets a spreadsheet may hold: per kind, no row or the row of one id
RemoteRows == {<<>>, <<rowData(RRec(1, 1, "B", EmptyNotes), 1)>>, <<rowData(RRec(2, 1, "B", EmptyNotes), 1)>>}
RemoteSheets == {[clients |-> c, sessions |-> s] : c \in RemoteRows, s \in RemoteRows}

\* #executePush(item.action, item.data) and #pushData up to the request (part_002:370-386,
\* GoogleSheetsService.js:168-197): is a request sent, and with which notes
requestOf(item) ==
  pushData(sends(configured, item.action), maxUrlLength, RemoteBase,
           pushArgument(item.action, item.data))

\* the data parameter the server parses from the request
requestData(item) ==
  IF item.data.notes = NoNotes \/ item.action \in {"deleteClient", "deleteSession"}
  THEN pushArgument(item.action, item.data)
  ELSE [item.data EXCEPT !.notes = requestOf(item).notes]

\* the handler of #processQueue called on the current item of pass p
withRequest(S, p) ==
  IF S.passes[p].st = "await"
  THEN [S EXCEPT !.passes[p].sent = requestOf(S.passes[p].arr[S.passes[p].idx]).sent]
  ELSE S

\* forceProcessQueue() called again and again (part_002:209-217), up to its first await
DrainNow ==
  /\ ~forceRefused
  /\ drains
  /\ HasFreePass
  /\ passes' = withRequest(processStart(QS, FreePass, "force"), FreePass).passes
  /\ lastRet' = NoRet
  /\ UNCHANGED <<queue, deletedIds, stQueue, stDeleted, clock, mgrVars, merge, histVars, calls,
                 adapterVars, storageFault>>
  /\ Quiet

\* the Apps Script answers the request of pass p (or the handler returns false without
\* one), and process goes on to the next item or returns to forceProcessQueue
RemoteAnswers(p, now) ==
  /\ passes[p].st = "await"
  /\ passes[p].owner = "force"
  /\ LET ps == passes[p]
         item == ps.arr[ps.idx]
         res == doGet(sheet, item.action, requestData(item), now)
         success == ps.sent /\ executeRequest(Response(TRUE, res.body)) = Returned(TRUE)
         S == withRequest(processResume(QS, p, success), p)
     IN /\ sheet' = IF ps.sent THEN res.sheet ELSE sheet
        /\ appliedOk' = IF success THEN appliedOk \cup {item} ELSE appliedOk
        /\ IF processEnds(ps)
           THEN /\ Commit(S, deletedIds)
                /\ lastRet' = [op |-> "forceProcessQueue",
                               successful |-> Len(processLists(ps, success).successful),
                               failed |-> Len(processLists(ps, success).failed)]
           ELSE /\ passes' = S.passes
                /\ lastRet' = NoRet
                /\ UNCHANGED <<queue, deletedIds, stQueue, stDeleted, clock>>
  /\ UNCHANGED <<mgrVars, merge, superseded, cleared, calls, maxUrlLength, remoteCall, storageFault>>
  /\ UNCHANGED lsnVars
  /\ notes' = IF processEnds(passes[p])
              THEN notifyConnectionChange(connectionListeners, TRUE,
                                          getConnectionStatusText(isOnline, Len(queue')))
              ELSE <<>>

InitR ==
  /\ queue \in RemoteQueues
  /\ stQueue = stringify(queue)
  /\ clock = 2
  /\ deletedIds = EmptyDeleted
  /\ stDeleted = EmptyDeleted
  /\ passes = [p \in PassIds |-> IdlePass]
  /\ appliedOk = {}
  /\ superseded = {}
  /\ cleared = {}
  /\ lastRet = NoRet
  /\ isOnline = TRUE
  /\ isSyncing = FALSE
  /\ configured = TRUE
  /\ pushes = [p \in PushIds |-> [st |-> "idle"]]
  /\ cycle = [pc |-> "idle"]
  /\ probe = "idle"
  /\ timers = 0
  /\ calls = 0
  /\ connectionListeners = <<>>
  /\ syncListeners = <<>>
  /\ notes = <<>>
  /\ remoteCall = IdleCall
  /\ storageFault = NoFault
  /\ maxUrlLength = DefaultMaxUrlLength
  /\ merge = NoMerge
  /\ sheet \in RemoteSheets

\* the drains are called one after the other: the next one once the last has returned
NextR ==
  \/ Active(passes) = {} /\ DrainNow
  \/ \E p \in PassIds, now \in ServerTimes : RemoteAnswers(p, now)

\* a later cycle: getData returns what the spreadsheet holds (GoogleSheetsService.js:93-115,
\* google-apps-script.js:222-230) and mergeData merges it with the local list, which
\* holds the client whose save the Apps Script has confirmed (part_002:142-150)
MergeAfterPush(item) ==
  /\ merge = NoMerge
  /\ item \in appliedOk
  /\ item.action = "saveClient"
  /\ \E m \in {mergeData(QS, deletedIds, isOnline,
                         getData(Response(TRUE, getAllData(sheet))).value,
                         <<item.data>>, <<>>)} :
        /\ m.scheduled => timers < MaxTimers
        /\ Commit(m.S, deletedIds)
        /\ CommitHist(m.S)
        /\ timers' = IF m.scheduled THEN timers + 1 ELSE timers
        /\ merge' = [st |-> "done", remote |-> getAllData(sheet), clients |-> <<item.data>>,
                     sessions |-> <<>>, deleted |-> deletedIds,
                     online |-> isOnline, result |-> m.result,
                     array |-> m.array, after |-> m.inputs]
  /\ lastRet' = NoRet
  /\ UNCHANGED <<isOnline, isSyncing, configured, pushes, cycle, probe, appliedOk, calls,
                 adapterVars, storageFault>>
  /\ Quiet

NextP ==
  \/ NextR
  \/ \E item \in appliedOk : MergeAfterPush(item)

SpecRoundTrip == InitR /\ [][NextP]_vars

\* ------------------------- a later change pushed while a drain pass is in flight
\* the later versions of the records queued at the start
OrderInputs ==
  {<<"saveClient", RRec(1, 2, "B", EmptyNotes)>>, <<"deleteSession", RRec(2, 2, "A", EmptyNotes)>>}

InitO == InitR /\ sheet = EmptySheet

NextO ==
  \/ \E x \in OrderInputs : PushChange(x[1], x[2])
  \/ \E p \in PushIds, r \in BOOLEAN : PushChangeResume(p, r)
  \/ ForceProcessQueue
  \/ \E p \in PassIds, r \in BOOLEAN : DrainResume(p, r)

SpecOrder == InitO /\ [][NextO]_vars

\* one entry is queued, the orchestrator keeps draining and the Apps Script answers every
\* request: in every state at most one of the two is enabled, the drain when no pass is in
\* flight and the answer when one is
InitL == InitR /\ Len(queue) = 1

FairRemote == InitL /\ [][NextR]_vars /\ WF_vars(NextR)

\* ------------------------------------------------------------------ claims
HasId(item) == EntryId(item) # NoId
WithId(q, id) == SelectSeq(q, LAMBDA item : EntryId(item) = id)
OtherThan(q, id) == SelectSeq(q, LAMBDA item : EntryId(item) # id)
UniqueIds(q) ==
  \A i, j \in DOMAIN q : (i # j /\ HasId(q[i])) => EntryId(q[i]) # EntryId(q[j])
QAddStep(x) == QAdd(x[1], x[2])

\* C1: in every state reached by add, removeById, removeItems, clear, clearAll and
\* (interleaved) process calls from an empty queue, the queue holds at most one entry
\* per distinct data.id; and an add never removes an entry that has no id.
C1_OneEntryPerId ==
  [][/\ UniqueIds(queue')
     /\ \A x \in QInputs : QAddStep(x) =>
          WithId(queue', NoId) = WithId(queue, NoId)
            \o (IF x[2].id = NoId THEN <<[action |-> x[1], data |-> x[2], timestamp |-> clock']>>
                ELSE <<>>)]_vars

\* C1 witness: an add has just run and the queue holds two entries without an id
\* next to an entry with an id.
C1_Witness ==
  /\ lastRet.op = "add"
  /\ Len(WithId(queue, NoId)) = 2
  /\ Len(queue) = 3

\* C2: an add carrying an id leaves exactly one entry for that id, holding the action
\* and data of this (the last) call, and leaves the entries of all other ids as they were.
C2_LastEnqueueWins ==
  [][\A x \in QInputs : (QAddStep(x) /\ x[2].id # NoId) =>
        /\ Len(WithId(queue', x[2].id)) = 1
        /\ WithId(queue', x[2].id)[1].action = x[1]
        /\ WithId(queue', x[2].id)[1].data = x[2]
        /\ OtherThan(queue', x[2].id) = OtherThan(queue, x[2].id)]_vars

\* C2 witness: a repeated add for an id replaced the earlier entry of that id (with
\* another action and other data) while an entry of another id stayed queued.
C2_Witness ==
  /\ lastRet.op = "add"
  /\ lastRet.deduped
  /\ Len(queue) = 2
  /\ queue[1].data.id = 2
  /\ queue[2].action = "deleteClient"
  /\ queue[2].data = Rec(1, 1, "B")
  /\ queue[2].timestamp = 3

\* C4: a process call that ran with no other queue operation interleaved invoked the
\* handler once per entry in queue order (also after a false or a throwing handler),
\* returns successful and failed lists that hold each original entry exactly once, and
\* leaves the queue, in memory and persisted, equal to the failed entries in their
\* original order.
C4_DrainPartition ==
  [][(lastRet'.op = "process" /\ lastRet'.clean) =>
        LET r == lastRet'
        IN /\ r.calls = queue
           /\ Len(r.successful) + Len(r.failed) = Len(queue)
           /\ Range(r.successful) \cup Range(r.failed) = Range(queue)
           /\ Range(r.successful) \cap Range(r.failed) = {}
           /\ r.failed = SelectSeq(queue, LAMBDA item : item \in Range(r.failed))
           /\ r.successful = SelectSeq(queue, LAMBDA item : item \in Range(r.successful))
           /\ queue' = r.failed
           /\ load(stQueue', stDeleted').queue = r.failed]_vars

\* C4 witness: an uninterrupted pass over three entries has returned; its first entry
\* failed and a later one succeeded.
C4_Witness ==
  /\ lastRet.op = "process"
  /\ lastRet.clean
  /\ Len(lastRet.calls) = 3
  /\ Len(lastRet.failed) = 2
  /\ lastRet.failed[1] = lastRet.calls[1]
  /\ lastRet.successful = <<lastRet.calls[2]>>
  /\ queue = lastRet.failed

\* ---- mergeData
RecsWithId(list, id) == SelectSeq(list, LAMBDA c : c.id = id)
Once(list, id) == Len(RecsWithId(list, id)) = 1
MergeDone == merge.st = "done"
MergeLocal(kind) == merge[kind]
MergeRemote(kind) == merge.remote[kind]
MergeResult(kind) == merge.result[kind]
Tombstoned(kind, id) == isDeleted(merge.deleted, kind, id)

\* C5 as stated: after mergeData, for each kind, the merged list holds no record
\* with the id of a tombstoned remote item, whatever the local list holds.
C5_NoTombstonedIdInMerge ==
  MergeDone =>
    \A kind \in Kinds : \A i \in DOMAIN MergeRemote(kind) :
      Tombstoned(kind, MergeRemote(kind)[i].id) =>
        RecsWithId(MergeResult(kind), MergeRemote(kind)[i].id) = <<>>

\* C5 amended: for the id of a tombstoned remote item, the merged list holds exactly
\* the records of that id that the local list passed to the merge holds (none when the
\* local list has none): the remote record is never taken.
C5_TombstonedRemoteExcluded ==
  MergeDone =>
    \A kind \in Kinds : \A i \in DOMAIN MergeRemote(kind) :
      Tombstoned(kind, MergeRemote(kind)[i].id) =>
        RecsWithId(MergeResult(kind), MergeRemote(kind)[i].id)
          = RecsWithId(MergeLocal(kind), MergeRemote(kind)[i].id)

\* C5 witness: a tombstoned remote session, newer than nothing local, was left out of
\* the merge while an untombstoned remote session was taken.
C5_Witness ==
  /\ MergeDone
  /\ merge.deleted.sessions = <<1>>
  /\ merge.sessions = <<>>
  /\ merge.remote.sessions = <<Rec(1, 2, "B"), Rec(2, 1, "A")>>
  /\ merge.result.sessions = <<Rec(2, 1, "A")>>

\* C6: for an id held once by the local list (updatedAt t1) and once by the remote list
\* (updatedAt t2) and not tombstoned, for clients and sessions alike, the merged list
\* holds one record of that id: the remote record when t2 > t1, else the local record
\* (also when t1 = t2).
C6_NewerWins ==
  MergeDone =>
    \A kind \in Kinds :
      \A i \in DOMAIN MergeLocal(kind), j \in DOMAIN MergeRemote(kind) :
        LET l == MergeLocal(kind)[i]
            r == MergeRemote(kind)[j]
        IN (/\ l.id = r.id
            /\ Once(MergeLocal(kind), l.id)
            /\ Once(MergeRemote(kind), l.id)
            /\ ~Tombstoned(kind, l.id))
           => RecsWithId(MergeResult(kind), l.id)
                = <<IF r.updatedAt > l.updatedAt THEN r ELSE l>>

\* C6 witness: one merge in which a client tie (equal timestamps, different fields)
\* kept the local record and a newer remote session replaced the local one.
C6_Witness ==
  /\ MergeDone
  /\ merge.clients = <<Rec(1, 2, "A")>>
  /\ merge.remote.clients = <<Rec(1, 2, "B")>>
  /\ merge.result.clients = <<Rec(1, 2, "A")>>
  /\ merge.sessions = <<Rec(1, 1, "A")>>
  /\ merge.remote.sessions = <<Rec(1, 2, "B")>>
  /\ merge.result.sessions = <<Rec(1, 2, "B")>>
  /\ merge.deleted = EmptyDeleted

SameRecords(a, b) == Len(a) = Len(b) /\ Range(a) = Range(b)
NotTombstoned(kind, list) == SelectSeq(list, LAMBDA c : ~Tombstoned(kind, c.id))

\* C7 as stated: merging against empty local lists yields every remote client and
\* every remote session, identical, and nothing else.
C7_FirstConnectTakesAllRemote ==
  (MergeDone /\ merge.clients = <<>> /\ merge.sessions = <<>>) =>
    \A kind \in Kinds : SameRecords(MergeResult(kind), MergeRemote(kind))

\* C7 amended: merging against empty local lists yields every remote client and every
\* remote session whose id is not tombstoned for its kind, identical, and nothing else.
C7_FirstConnectTakesActiveRemote ==
  (MergeDone /\ merge.clients = <<>> /\ merge.sessions = <<>>) =>
    \A kind \in Kinds : SameRecords(MergeResult(kind), NotTombstoned(kind, MergeRemote(kind)))

\* C7 witness: empty local lists and three remote clients, one of them tombstoned: the
\* two others, and only they, were merged.
C7_Witness ==
  /\ MergeDone
  /\ merge.clients = <<>>
  /\ merge.sessions = <<>>
  /\ merge.deleted.clients = <<1>>
  /\ merge.remote.clients = <<Rec(2, 1, "A"), Rec(1, 2, "B"), Rec(2, 2, "B")>>
  /\ merge.result.clients = <<Rec(2, 1, "A"), Rec(2, 2, "B")>>
  /\ queue = <<>>

\* ---- the orchestrator
\* the remote requests in flight
Requests ==
  {<<"pushChange", p, pushes[p].stamp>> : p \in {q \in PushIds : pushes[q].st = "await" /\ pushes[q].sent}}
  \cup {<<"process", p, passes[p].arr[passes[p].idx].timestamp>> :
          p \in {q \in PassIds : passes[q].st = "await" /\ passes[q].sent}}
  \cup (IF cycle.pc \in {"init", "fetch"} /\ cycle.sent THEN {<<cycle.pc, 0, 0>>} ELSE {})
  \cup (IF probe = "await" THEN {<<"ping", 0, 0>>} ELSE {})

\* a remote apply of this action and data has returned success
AppliedIn(applied, action, data) == \E a \in applied : a.action = action /\ a.data = data

\* C3: an entry leaves the queue only when a remote apply of it returned success, a
\* later add for its id superseded it, or the queue was cleared; so an entry enqueued
\* while a drain pass is suspended survives the end of that pass.
C3_EntriesLeaveOnlyWhenApplied ==
  [][\A i \in DOMAIN queue :
       queue[i] \notin Range(queue') =>
         \/ AppliedIn(appliedOk', queue[i].action, queue[i].data)
         \/ queue[i].timestamp \in superseded'
         \/ queue[i].timestamp \in cleared']_vars

PushStep(x) == PushChange(x[1], x[2])

\* C8: pushChange called while offline or unconfigured returns {success: false,
\* queued: true} in the same step, sends no request, leaves #isOnline as it was and
\* leaves the pushed entry last in the queue, the only entry of its data.id.
C8_OfflinePushQueues ==
  [][\A x \in PushInputs : (PushStep(x) /\ ~(isOnline /\ configured)) =>
        /\ lastRet' = [op |-> "pushChange", success |-> FALSE, queued |-> TRUE,
                       attempted |-> FALSE]
        /\ Requests' = Requests
        /\ pushes' = pushes
        /\ isOnline' = isOnline
        /\ queue'[Len(queue')] = [action |-> x[1], data |-> x[2], timestamp |-> clock']
        /\ x[2].id # NoId => Len(WithId(queue', x[2].id)) = 1]_vars

\* C8 witness: online but with the script URL cleared, a pushChange for an id that was
\* already queued has returned at once; the queue holds the one new entry of that id.
C8_Witness ==
  /\ isOnline
  /\ ~configured
  /\ lastRet.op = "pushChange"
  /\ ~lastRet.attempted
  /\ clock = 2
  /\ Len(queue) = 1
  /\ queue[1].timestamp = 2
  /\ queue[1].data.id = 1

\* C9: when a pushChange whose remote apply failed returns, it returns {success: false,
\* queued: true} and the queue holds an entry of data.id with the pushed action and
\* data, in every interleaving with other pushChange calls and drains (read in the
\* claim's favour: unless the entry it enqueued was meanwhile superseded by a later add
\* of that id, applied with success by a drain, or cleared).
C9_FailedPushStaysQueued ==
  [][\A p \in PushIds : (PushChangeResume(p, FALSE) /\ pushes[p].data.id # NoId) =>
        /\ lastRet'.success = FALSE
        /\ lastRet'.queued = TRUE
        /\ \/ \E i \in DOMAIN queue' :
                /\ queue'[i].data = pushes[p].data
                /\ queue'[i].action = pushes[p].action
           \/ AppliedIn(appliedOk', pushes[p].action, pushes[p].data)
           \/ pushes[p].stamp \in superseded \cup cleared]_vars

\* C10: when a pushChange whose remote apply succeeded returns, it returns {success:
\* true, queued: false}, no entry of data.id remains, and every entry that was in the
\* queue, other than the one this call enqueued, is still in the queue.
C10_SuccessfulPushRemovesOwnEntry ==
  [][\A p \in PushIds : PushChangeResume(p, TRUE) =>
        /\ lastRet'.success = TRUE
        /\ lastRet'.queued = FALSE
        /\ pushes[p].data.id # NoId => WithId(queue', pushes[p].data.id) = <<>>
        /\ \A i \in DOMAIN queue :
             queue[i].timestamp # pushes[p].stamp => queue[i] \in Range(queue')]_vars

\* C11: pushChange persists the change before it sends any request, and while the
\* call is waiting for its remote apply (so no apply of the change is confirmed yet) the
\* queue that #load rebuilds from localStorage holds an entry of data.id with the pushed
\* action and data (read in the claim's favour: unless the entry was meanwhile superseded
\* by a later add of that id, applied with success by a drain, or cleared).
C11_PendingPushIsPersisted ==
  \A p \in PushIds :
    pushes[p].st = "await" =>
      \/ \E i \in DOMAIN load(stQueue, stDeleted).queue :
            /\ load(stQueue, stDeleted).queue[i].data = pushes[p].data
            /\ load(stQueue, stDeleted).queue[i].action = pushes[p].action
      \/ AppliedIn(appliedOk, pushes[p].action, pushes[p].data)
      \/ pushes[p].stamp \in superseded \cup cleared

SyncStep == SyncRefused \/ \E x \in SyncInputs : Sync(x[1], x[2])

\* C12: at most one sync cycle is in progress (#isSyncing is true exactly while the one
\* cycle runs), and a sync call made while #isSyncing is true returns null in the same
\* step, sends no request, leaves the queue (in memory and persisted) and the running
\* cycle as they are, and leaves #isSyncing true.
C12_SecondSyncRefused ==
  [][/\ (SyncStep /\ isSyncing) =>
          /\ lastRet' = [op |-> "sync", value |-> Null]
          /\ Requests' = Requests
          /\ queue' = queue
          /\ stQueue' = stQueue
          /\ passes' = passes
          /\ cycle' = cycle
          /\ isSyncing'
     /\ isSyncing' <=> cycle'.pc # "idle"]_vars

\* C12 witness: a sync call has just been refused while a cycle is waiting for its fetch.
C12_Witness ==
  /\ lastRet = [op |-> "sync", value |-> Null]
  /\ isSyncing
  /\ cycle.pc = "fetch"
  /\ cycle.sent

\* C13: a sync call that passed the guard ends (whatever its drain applies, init and
\* fetch returned, and also when mergeData raises or a listener throws) by returning null
\* or the merged {clients, sessions}, never by raising, with #isSyncing = false, so the
\* guard lets a later cycle start.
C13_SyncAlwaysClearsFlag ==
  [][(cycle.pc # "idle" /\ cycle'.pc = "idle" /\ lastRet'.op # "restart") =>
        /\ ~isSyncing'
        /\ lastRet'.op = "sync"
        /\ DOMAIN lastRet' \subseteq {"op", "value", "fetched", "events"}
        /\ lastRet'.value = Null \/ DOMAIN lastRet'.value = {"clients", "sessions"}
        /\ (isOnline' /\ configured') => ~refused']_vars

\* C13 witness: a cycle has returned the merged result with the flag cleared, although
\* its drain apply failed (the entry is still queued) and its sync-complete listener threw.
C13_Witness ==
  /\ lastRet.op = "sync"
  /\ lastRet.value # Null
  /\ lastRet.events = <<"apply", "init", "fetch", "merge", "notify">>
  /\ ~isSyncing
  /\ appliedOk = {}
  /\ \E i \in DOMAIN queue : queue[i].timestamp = 1
  /\ syncListeners = <<TRUE>>
  /\ Len(notes) = 1

\* C14: a sync call made while offline or unconfigured returns null in the same step,
\* sends no request, invokes no listener, and leaves the queue, the tombstones (both in
\* memory and persisted), #isOnline and #isSyncing as they were.
C14_SyncOfflineIsNoOp ==
  [][(SyncStep /\ (~isOnline \/ ~configured)) =>
        /\ lastRet' = [op |-> "sync", value |-> Null]
        /\ Requests' = Requests
        /\ notes' = <<>>
        /\ UNCHANGED <<queue, stQueue, deletedIds, stDeleted, isOnline, isSyncing,
                       passes, cycle, timers>>]_vars

\* C14 witness: online but with the script URL cleared, with a connection listener
\* registered, a sync call has returned null.
C14_Witness ==
  /\ lastRet = [op |-> "sync", value |-> Null]
  /\ isOnline
  /\ ~configured
  /\ ~isSyncing
  /\ Len(connectionListeners) = 1

FetchFailed(d) == d = Null \/ "clients" \notin DOMAIN d \/ "sessions" \notin DOMAIN d

\* C15: when getData gave null, or a snapshot without clients or without sessions, the
\* cycle returns null, the queue is as before (nothing enqueued) and no drain is
\* scheduled, no sync-complete listener is invoked, and #isSyncing is false.
C15_FailedFetchAbortsCycle ==
  [][\A d \in FetchResults : (SyncFetchResume(d) /\ FetchFailed(d)) =>
        /\ lastRet'.op = "sync"
        /\ lastRet'.value = Null
        /\ queue' = queue
        /\ stQueue' = stQueue
        /\ clock' = clock
        /\ timers' = timers
        /\ \A i \in DOMAIN notes' : notes'[i].to # "sync"
        /\ ~isSyncing']_vars

\* C15 witness: with a sync-complete listener registered, a cycle has returned null
\* because the fetched snapshot had no sessions.
C15_Witness ==
  /\ lastRet.op = "sync"
  /\ lastRet.value = Null
  /\ "fetched" \in DOMAIN lastRet
  /\ lastRet.fetched = [clients |-> <<>>]
  /\ ~isSyncing
  /\ Len(syncListeners) = 1
  /\ queue = <<>>
  /\ timers = 0

\* C16: a cycle that returns a merged result has made its calls in the order: the drain
\* pass's applies (one per entry of the pass, all before init), init, getData, mergeData,
\* the sync-complete notification; and each sync-complete listener was invoked exactly
\* once, with the value the cycle returns.
C16_CycleOrder ==
  [][/\ (lastRet'.op = "sync" /\ lastRet'.value # Null) =>
          /\ \E k \in 0..MaxClock :
                lastRet'.events
                  = [i \in 1..k |-> "apply"] \o <<"init", "fetch", "merge", "notify">>
          /\ SelectSeq(notes', LAMBDA n : n.to = "sync")
                = [i \in DOMAIN syncListeners |->
                     [to |-> "sync", listener |-> i, data |-> lastRet'.value]]
     /\ cycle'.pc = "drain" =>
          \E p \in PassIds :
            /\ passes'[p].st = "await"
            /\ passes'[p].owner = "sync"
            /\ cycle'.log = [i \in 1..passes'[p].idx |-> "apply"]
     /\ cycle'.pc \in {"init", "fetch"} =>
          \A p \in PassIds : passes'[p].st = "await" => passes'[p].owner # "sync"]_vars

\* C16 witness: with two sync-complete listeners registered (the first one throws), a
\* cycle has returned a merged result holding a remote client; both were invoked.
C16_Witness ==
  /\ lastRet.op = "sync"
  /\ lastRet.value # Null
  /\ Len(lastRet.value.clients) = 1
  /\ syncListeners = <<TRUE, FALSE>>
  /\ Len(notes) = 2
  /\ notes[2].listener = 2

\* C20: checkConnection, when unconfigured, sets #isOnline false, returns false, sends no
\* ping and tells every listener (false, local storage); when configured it tells every
\* listener (false, connecting) and sends one ping, and when the ping returns it sets
\* #isOnline to the ping's result, tells every listener the final status and returns
\* #isOnline.
C20_ProbeConnection ==
  [][/\ (CheckConnection /\ ~configured) =>
          /\ ~isOnline'
          /\ lastRet' = [op |-> "checkConnection", value |-> FALSE]
          /\ Requests' = Requests
          /\ notes' = [i \in DOMAIN connectionListeners |->
                         [to |-> "connection", listener |-> i, isOnline |-> FALSE,
                          statusText |-> StatusText("local", 0)]]
     /\ (CheckConnection /\ configured) =>
          /\ isOnline' = isOnline
          /\ <<"ping", 0, 0>> \notin Requests
          /\ Requests' = Requests \cup {<<"ping", 0, 0>>}
          /\ notes' = [i \in DOMAIN connectionListeners |->
                         [to |-> "connection", listener |-> i, isOnline |-> FALSE,
                          statusText |-> StatusText("connecting", 0)]]
     /\ \A r \in BOOLEAN : CheckConnectionResume(r) =>
          /\ isOnline' = r
          /\ lastRet' = [op |-> "checkConnection", value |-> isOnline']
          /\ Requests' = Requests \ {<<"ping", 0, 0>>}
          /\ Len(notes') = Len(connectionListeners)
          /\ \A i \in DOMAIN notes' :
                /\ notes'[i].listener = i
                /\ notes'[i].isOnline = r
                /\ notes'[i].statusText.text
                     = IF ~r THEN "offline" ELSE IF queue = <<>> THEN "connected" ELSE "queue"
                /\ notes'[i].statusText.n = IF r THEN Len(queue) ELSE 0]_vars

\* C20 witness: with two connection listeners registered and one entry queued, a probe
\* whose ping returned true has come back online; both listeners were told so.
C20_Witness ==
  /\ lastRet = [op |-> "checkConnection", value |-> TRUE]
  /\ isOnline
  /\ Len(queue) = 1
  /\ Len(notes) = 2
  /\ notes[2].statusText = StatusText("queue", 1)

SaveAction(kind) == IF kind = "clients" THEN "saveClient" ELSE "saveSession"
OtherKind(kind) == IF kind = "clients" THEN "sessions" ELSE "clients"
MergeStep == merge = NoMerge /\ merge'.st = "done"

\* C17: mergeData, for each item of the local list of each kind (ids being unique: the
\* item's id is held once by its local list, at most once by the remote list of its kind
\* and by no local item of the other kind), leaves one new save<Kind> entry carrying that
\* item as the queue's entry of its id exactly when the unfiltered remote list has no item
\* of that id or has one with a strictly older updatedAt, also when the id is tombstoned;
\* otherwise it leaves the queue's entries of that id as they were.
C17_MergeEnqueuesLocalNewer ==
  [][MergeStep =>
       \A kind \in Kinds : \A i \in DOMAIN merge'[kind] :
         LET item == merge'[kind][i]
             remote == RecsWithId(merge'.remote[kind], item.id)
         IN (/\ Once(merge'[kind], item.id)
             /\ Len(remote) <= 1
             /\ RecsWithId(merge'[OtherKind(kind)], item.id) = <<>>)
            => IF remote = <<>> \/ (remote # <<>> /\ remote[1].updatedAt < item.updatedAt)
               THEN /\ Len(WithId(queue', item.id)) = 1
                    /\ WithId(queue', item.id)[1].action = SaveAction(kind)
                    /\ WithId(queue', item.id)[1].data = item
                    /\ WithId(queue', item.id)[1].timestamp > clock
               ELSE WithId(queue', item.id) = WithId(queue, item.id)]_vars

\* C17 witness: the merge enqueued a local-only client whose id is tombstoned and left
\* alone the queued entry of a client whose remote copy is equally new.
C17_Witness ==
  /\ MergeDone
  /\ merge.clients = <<Rec(1, 2, "A"), Rec(2, 1, "A")>>
  /\ merge.remote.clients = <<Rec(2, 1, "B")>>
  /\ merge.deleted.clients = <<1>>
  /\ Len(queue) = 2
  /\ queue[1] = [action |-> "deleteClient", data |-> Rec(2, 1, "A"), timestamp |-> 1]
  /\ queue[2] = [action |-> "saveClient", data |-> Rec(1, 2, "A"), timestamp |-> 2]

\* C18: after mergeData the local client list, the local session list and the two lists
\* of the remote snapshot hold the elements they held at the call, in the same order, and
\* the merged lists are arrays of their own, not the arrays passed in.
C18_MergeLeavesInputsAlone ==
  MergeDone =>
    /\ merge.after.clients = merge.clients
    /\ merge.after.sessions = merge.sessions
    /\ merge.after.remote = merge.remote
    /\ merge.array \notin {"local", "remote"}

\* C18 witness: the merge replaced a local client by its newer remote copy and appended a
\* remote-only client, in the merged list only.
C18_Witness ==
  /\ MergeDone
  /\ merge.clients = <<Rec(1, 1, "A")>>
  /\ merge.remote.clients = <<Rec(1, 2, "B"), Rec(2, 1, "A")>>
  /\ merge.result.clients = <<Rec(1, 2, "B"), Rec(2, 1, "A")>>
  /\ merge.after.clients = <<Rec(1, 1, "A")>>
  /\ merge.deleted = EmptyDeleted

Told(ns, to) ==
  LET s == SelectSeq(ns, LAMBDA n : n.to = to)
  IN [i \in DOMAIN s |-> s[i].listener]
AllOf(listeners) == [i \in DOMAIN listeners |-> i]

\* C21: a notification invokes every registered listener of its kind once, in
\* registration order, whether or not earlier listeners throw; and the operation that
\* notified (checkConnection, sync, pushChange, forceProcessQueue) returns without
\* raising: checkConnection returns #isOnline, a sync that notified returns the merged
\* value it gave the listeners, a pushChange that got its apply's result returns it.
C21_EveryListenerToldOnce ==
  [][/\ Told(notes', "connection") \in {<<>>, AllOf(connectionListeners)}
     /\ Told(notes', "sync") \in {<<>>, AllOf(syncListeners)}
     /\ Len(notes') = Len(Told(notes', "connection")) + Len(Told(notes', "sync"))
     /\ notes' # <<>> => "threw" \notin DOMAIN lastRet'
     /\ lastRet'.op = "checkConnection" =>
          /\ Told(notes', "connection") = AllOf(connectionListeners)
          /\ lastRet'.value = isOnline'
     /\ (lastRet'.op = "sync" /\ Told(notes', "sync") # <<>>) =>
          /\ Told(notes', "connection") = AllOf(connectionListeners)
          /\ \A i \in DOMAIN notes' : notes'[i].to = "sync" => notes'[i].data = lastRet'.value
     /\ (lastRet'.op = "pushChange" /\ "attempted" \in DOMAIN lastRet' /\ lastRet'.attempted) =>
          Told(notes', "connection") = AllOf(connectionListeners)
     /\ \A p \in PushIds, r \in BOOLEAN : PushChangeResume(p, r) =>
          /\ lastRet'.op = "pushChange"
          /\ lastRet'.success = r]_vars

\* C21 witness: two connection listeners, the first of which throws, were both told, in
\* order, that a pushChange's apply succeeded, and the call returned success.
C21_Witness ==
  /\ connectionListeners = <<TRUE, FALSE>>
  /\ lastRet.op = "pushChange"
  /\ "success" \in DOMAIN lastRet
  /\ lastRet.success
  /\ Len(notes) = 2
  /\ notes[1].listener = 1
  /\ notes[2].listener = 2

\* ---- the Remote Adapter
\* a transport failure: a network error, a non-success status, a body that is no JSON,
\* or a body with an error field (ping reads the status only)
TransportFailure(op, r) ==
  IF r = Rejected THEN TRUE
  ELSE IF op = "ping" THEN ~r.ok
  ELSE ~r.ok \/ r.body = Malformed \/ hasError(r.body)

\* C22: a Remote Adapter operation whose request met a transport failure (network
\* error, non-success status, unparseable body, body with an error field) does not raise
\* and returns its failure sentinel: null for getData, false for ping, init, saveClient,
\* saveSession, deleteClient, deleteSession and syncAll.
C22_AdapterReturnsSentinel ==
  (/\ remoteCall.st = "done"
   /\ "response" \in DOMAIN remoteCall
   /\ TransportFailure(remoteCall.op, remoteCall.response))
  => /\ remoteCall.ret # Threw
     /\ remoteCall.ret = Returned(IF remoteCall.op = "getData" THEN Null ELSE FALSE)

\* the notes the claim expects after the first and after the second cut
ExpectFirst(n) ==
  IF n = NoNotes THEN n
  ELSE IF n.len + n.dots > 500 THEN [len |-> 500, width |-> n.width, dots |-> 3]
  ELSE n
ExpectShort(n) ==
  IF n = NoNotes THEN n
  ELSE [len |-> IF n.len < 200 THEN n.len ELSE 200, width |-> n.width, dots |-> 0]

\* C23: a save or delete operation sends a request only when the encoded URL is within
\* maxUrlLength.  Notes longer than 500 characters are cut to their first 500 characters
\* plus '...'; if the URL is then over the budget the notes are cut to at most 200
\* characters and the URL is built once more; if it is still over the budget the
\* operation returns false and sends nothing.  The caller's record is left as it was.
C23_SendsOnlyWithinBudget ==
  (remoteCall.st # "idle" /\ remoteCall.op \in PushOps) =>
    LET arg == pushArgument(remoteCall.op, remoteCall.data)
        n1 == ExpectFirst(arg.notes)
        n2 == ExpectShort(n1)
        fits1 == remoteCall.base + encodedLength(n1) <= maxUrlLength
        fits2 == remoteCall.base + encodedLength(n2) <= maxUrlLength
    IN /\ remoteCall.sent =>
            /\ remoteCall.url <= maxUrlLength
            /\ remoteCall.url = remoteCall.base + encodedLength(remoteCall.notes)
       /\ remoteCall.sent <=> (configured /\ (fits1 \/ fits2))
       /\ (remoteCall.sent /\ fits1) => (remoteCall.notes = n1 /\ remoteCall.builds = 1)
       /\ (remoteCall.sent /\ ~fits1) =>
            /\ remoteCall.notes = n2
            /\ n2 # NoNotes => lengthOf(remoteCall.notes) <= 200
            /\ remoteCall.builds = 2
       /\ ~remoteCall.sent => (remoteCall.st = "done" /\ remoteCall.ret = Returned(FALSE))
       /\ remoteCall.caller = arg

\* C23 witness: under the default budget a client with notes of 600 characters was
\* saved with the first 500 characters plus '...'; the caller's record still holds 600.
C23_Witness ==
  /\ maxUrlLength = DefaultMaxUrlLength
  /\ remoteCall.st = "done"
  /\ remoteCall.op = "saveClient"
  /\ remoteCall.sent
  /\ remoteCall.notes = [len |-> 500, width |-> 1, dots |-> 3]
  /\ remoteCall.caller = [id |-> 1, notes |-> Notes(600, 1)]
  /\ remoteCall.ret = Returned(TRUE)

\* ---- the Queue and localStorage
\* a step in which a mutating method of the queue ran to its end (lastRet names the
\* method that returned in the step)
MutatingStep ==
  /\ lastRet'.op \in {"add", "removeById", "removeItems", "clear", "clearAll", "addDeletedId",
                      "clearDeletedIds", "process"}
  /\ lastRet'.op = "addDeletedId" => deletedIds' # deletedIds

\* C24: while localStorage works (no setItem throws), every completed add, removeById,
\* removeItems, clear, clearAll, inserting addDeletedId, clearDeletedIds and process leaves
\* in localStorage a snapshot from which the constructor's #load rebuilds exactly the
\* entry list and the tombstone lists that are in memory.
C24_PersistedEqualsMemory ==
  [][(MutatingStep /\ storageFault = NoFault) =>
        load(stQueue', stDeleted') = [queue |-> queue', deletedIds |-> deletedIds']]_vars

\* C24 witness: an add that replaced the entry of its id has left a snapshot that reads
\* back as the queue in memory, which holds an entry without id (whose stored text
\* lacks the key, so the text is not the queue); a tombstone is stored with it.
C24_Witness ==
  /\ storageFault = NoFault
  /\ lastRet.op = "add"
  /\ Len(queue) = 2
  /\ queue[1].data.id = NoId
  /\ queue[2].timestamp = 3
  /\ queue[2].data.id = 1
  /\ deletedIds.clients = <<1>>
  /\ stQueue # queue
  /\ load(stQueue, stDeleted) = [queue |-> queue, deletedIds |-> deletedIds]

\* C25: when a setItem of #save throws, the method that saved returns normally and its
\* effect is in memory (the new entry is last in the queue, the removed entries are gone,
\* the cleared lists are empty, the tombstone is set, the queue is the failed entries of
\* the pass); and a constructor whose getItem throws, or that finds a text that is no
\* JSON, returns normally with an empty queue and empty tombstone lists.
C25_StorageFailuresAreSilent ==
  [][/\ (MutatingStep /\ storageFault # NoFault) =>
          /\ "threw" \notin DOMAIN lastRet'
          /\ lastRet'.op = "add" =>
               /\ clock' = clock + 1
               /\ \E x \in StorageAdds :
                    queue'[Len(queue')] = [action |-> x[1], data |-> x[2], timestamp |-> clock']
          /\ lastRet'.op = "removeById" => \E i \in {1, NoId} : queue' = OtherThan(queue, i)
          /\ lastRet'.op = "removeItems" =>
               /\ Range(queue') \subseteq Range(queue)
               /\ Len(queue') < Len(queue)
          /\ lastRet'.op = "clear" => (queue' = <<>> /\ deletedIds' = deletedIds)
          /\ lastRet'.op = "clearAll" => (queue' = <<>> /\ deletedIds' = EmptyDeleted)
          /\ lastRet'.op = "clearDeletedIds" => (queue' = queue /\ deletedIds' = EmptyDeleted)
          /\ lastRet'.op = "addDeletedId" =>
               \E x \in StorageDeletes :
                 deletedIds' = [deletedIds EXCEPT ![x[1]] = Append(@, x[2])]
          /\ lastRet'.op = "process" => queue' = lastRet'.failed
     /\ (lastRet'.op = "constructor" /\ (lastRet'.getItemThrows \/ stQueue = Corrupt)) =>
          /\ "threw" \notin DOMAIN lastRet'
          /\ queue' = <<>>
          /\ deletedIds' = EmptyDeleted]_vars

\* C25 witness: with the first setItem throwing, two adds and an addDeletedId have
\* returned; the entries and the tombstone are in memory and nothing of them is stored.
C25_Witness ==
  /\ storageFault = "setQueue"
  /\ lastRet = [op |-> "addDeletedId"]
  /\ Len(queue) = 2
  /\ deletedIds.sessions = <<1>>
  /\ stQueue = <<>>
  /\ stDeleted = EmptyDeleted

\* C26: clear() empties the queue and leaves the tombstones as they are;
\* clearDeletedIds() empties the tombstones and leaves the queue as it is; clearAll() and
\* the orchestrator's clearQueue() empty both.
C26_ClearFrames ==
  [][/\ QClear => (queue' = <<>> /\ deletedIds' = deletedIds)
     /\ QClearDeletedIds => (deletedIds' = EmptyDeleted /\ queue' = queue)
     /\ QClearAll => (queue' = <<>> /\ deletedIds' = EmptyDeleted)
     /\ ClearQueue => (queue' = <<>> /\ deletedIds' = EmptyDeleted)]_vars

\* C26 witness: clearDeletedIds() has returned after clearQueue() had emptied a queue
\* of one entry and two more entries were added: they are still queued.
C26_Witness ==
  /\ lastRet.op = "clearDeletedIds"
  /\ cleared = {1}
  /\ calls = 1
  /\ Len(queue) = 2
  /\ deletedIds = EmptyDeleted

\* C27: addDeletedId(type, id) leaves the id exactly once in the list of its type; a
\* call for an id that is already there changes neither the tombstones nor localStorage
\* (it does not reach #save), and a call that inserts writes the snapshot of the whole
\* state when localStorage works.
C27_MarkDeletedIdempotent ==
  [][lastRet'.op = "addDeletedId" =>
       \A x \in StorageDeletes : QAddDeletedId(x[1], x[2]) =>
         /\ Len(SelectSeq(deletedIds'[x[1]], LAMBDA i : i = x[2])) = 1
         /\ isDeleted(deletedIds, x[1], x[2]) =>
              UNCHANGED <<deletedIds, stQueue, stDeleted>>
         /\ (~isDeleted(deletedIds, x[1], x[2]) /\ storageFault = NoFault) =>
              /\ stDeleted' = deletedIds'
              /\ load(stQueue', stDeleted').queue = queue']_vars

\* C27 witness: the tombstone of client 1 was set while setItem was throwing, so it is
\* not in localStorage; localStorage works again and a second addDeletedId for client 1
\* has returned: the id is there once and localStorage was not written.
C27_Witness ==
  /\ lastRet = [op |-> "addDeletedId"]
  /\ storageFault = NoFault
  /\ deletedIds = [clients |-> <<1>>, sessions |-> <<>>]
  /\ stDeleted = EmptyDeleted

\* ---- #executePush
Unknown(action) == action \notin KnownActions

\* C28: #executePush with an action that is none of saveClient, saveSession,
\* deleteClient, deleteSession, syncAll sends no request and gives false without raising:
\* a pushChange with such an action returns {success: false, queued: true}, and a drain
\* pass puts every such entry it handled among the failed ones, so that the entry is in
\* the queue when the pass ends.
C28_UnknownActionFails ==
  [][/\ \A r \in Requests' :
          /\ r[1] = "pushChange" => ~Unknown(pushes'[r[2]].action)
          /\ r[1] = "process" => ~Unknown(passes'[r[2]].arr[passes'[r[2]].idx].action)
     /\ \A p \in PushIds :
          (/\ pushes[p].st = "await"
           /\ Unknown(pushes[p].action)
           /\ pushes'[p].st = "idle"
           /\ lastRet'.op # "restart")
          => lastRet' = [op |-> "pushChange", success |-> FALSE, queued |-> TRUE,
                         attempted |-> TRUE]
     /\ \A p \in PassIds :
          (passes[p].st = "await" /\ passes'[p].st = "idle" /\ lastRet'.op # "restart")
          => \A i \in 1..passes[p].idx :
               Unknown(passes[p].arr[i].action) =>
                 /\ passes[p].arr[i] \in Range(queue')
                 /\ passes[p].arr[i] \notin appliedOk']_vars

\* C28 witness: forceProcessQueue has returned {successful: 0, failed: 1} for a queue
\* that held one entry with the action renameClient; the entry is still queued.
C28_Witness ==
  /\ lastRet = [op |-> "forceProcessQueue", successful |-> 0, failed |-> 1]
  /\ isOnline
  /\ configured
  /\ Len(queue) = 1
  /\ queue[1].action = "renameClient"
  /\ appliedOk = {}

\* C29: forceProcessQueue called while offline or while a sync is in progress returns
\* {successful: 0, failed: queue length} in the same step, sends no request, invokes no
\* listener and leaves the queue and the passes in flight as they are.  Otherwise it
\* returns {0, 0} at once when the queue is empty, or starts exactly one pass; and when
\* its pass ends it returns counts whose sum is the number of entries the pass handed to
\* the handler.
C29_DrainNow ==
  [][/\ (ForceProcessQueue /\ (~isOnline \/ isSyncing)) =>
          /\ lastRet' = [op |-> "forceProcessQueue", successful |-> 0, failed |-> Len(queue)]
          /\ Requests' = Requests
          /\ notes' = <<>>
          /\ UNCHANGED <<queue, stQueue, passes, isOnline, isSyncing>>
     /\ (ForceProcessQueue /\ isOnline /\ ~isSyncing) =>
          IF queue = <<>>
          THEN /\ lastRet' = [op |-> "forceProcessQueue", successful |-> 0, failed |-> 0]
               /\ passes' = passes
          ELSE \E p \in PassIds :
                 /\ passes[p].st = "idle"
                 /\ passes'[p].st = "await"
                 /\ passes'[p].owner = "force"
                 /\ \A q \in PassIds \ {p} : passes'[q] = passes[q]
     /\ \A p \in PassIds :
          (/\ passes[p].st = "await"
           /\ passes[p].owner = "force"
           /\ passes'[p].st = "idle"
           /\ lastRet'.op # "restart")
          => /\ lastRet'.op = "forceProcessQueue"
             /\ lastRet'.successful + lastRet'.failed = Len(passes[p].calls)
             /\ Len(passes[p].calls) = passes[p].idx]_vars

\* C29 witness: while a sync is draining a queue of one entry, forceProcessQueue has
\* returned {successful: 0, failed: 1} with a connection listener registered and untold.
C29_Witness ==
  /\ lastRet = [op |-> "forceProcessQueue", successful |-> 0, failed |-> 1]
  /\ isOnline
  /\ isSyncing
  /\ cycle.pc = "drain"
  /\ Len(queue) = 1
  /\ notes = <<>>

\* C30: queue entries are handed to the remote handler one at a time: in every
\* interleaving of sync, forceProcessQueue, pushChange and the drain that mergeData
\* schedules, no two drain passes have a request in flight at the same moment, and in
\* particular no two passes have a request in flight for the same queue entry.
C30_OneDrainAtATime ==
  \A p \in PassIds : \A q \in PassIds \ {p} :
    ~ /\ passes[p].st = "await" /\ passes[p].sent
      /\ passes[q].st = "await" /\ passes[q].sent
      /\ passes[p].arr[passes[p].idx] = passes[q].arr[passes[q].idx]

\* ---- draining to the spreadsheet
\* C31: while the orchestrator stays online, the Apps Script answers every request and
\* no new change is enqueued, repeated drains eventually leave the queue empty, for
\* every queue of entries of the five action kinds and every content of the spreadsheet.
C31_DrainsEmptyTheQueue == <>(queue = <<>>)

\* ---- mergeData on records without a date
Dateless(rec) == rec.updatedAt \in {Missing, Invalid}
SavedIn(q, action, rec) == \E i \in DOMAIN q : q[i].action = action /\ q[i].data = rec
\* what the claim expects of one local record l and one remote record r of the same id
EpochRule(l, r, out, action) ==
  /\ (Dateless(l) /\ ~Dateless(r)) => out = <<r>>
  /\ (~Dateless(l) /\ Dateless(r)) => out = <<l>> /\ SavedIn(queue, action, l)
  /\ (Dateless(l) /\ Dateless(r)) => out = <<l>>

\* C32: in the merge a missing or unparseable updatedAt counts as the epoch, older than
\* every valid timestamp, on either side: a dated remote record replaces an undated
\* local one, a dated local record is kept and enqueued against an undated remote one,
\* and of two undated records the local one is kept.
C32_UndatedIsOldest ==
  merge.st = "done" =>
    /\ EpochRule(merge.clients[1], merge.remote.clients[1], merge.result.clients, "saveClient")
    /\ EpochRule(merge.sessions[1], merge.remote.sessions[1], merge.result.sessions, "saveSession")

\* ---- the drain that mergeData schedules
\* sync has fetched a snapshot, mergeData has run on it and sync returns its result
MergedInSync == cycle.pc = "fetch" /\ lastRet'.op = "sync" /\ "events" \in DOMAIN lastRet'

\* C33: mergeData hands a drain to setTimeout exactly when, at its end, the queue is not
\* empty and the orchestrator is online; the step in which the merge runs and returns
\* issues no request and starts no drain pass, and a timer drain starts only in a later
\* step of its own, which takes one pending timer; offline, nothing is scheduled.
C33_MergeSchedulesDrain ==
  [][/\ MergedInSync =>
          /\ timers' = IF queue' # <<>> /\ isOnline THEN timers + 1 ELSE timers
          /\ ~isOnline => timers' = timers
          /\ Requests' \subseteq Requests
          /\ Active(passes') = Active(passes)
     /\ \A p \in PassIds :
          (passes[p].st = "idle" /\ passes'[p].st = "await" /\ passes'[p].owner = "timer")
          => /\ timers' = timers - 1
             /\ lastRet' = NoRet
             /\ cycle' = cycle]_vars

\* C33 witness: a sync made while online has merged, enqueued a newer local client and
\* returned; one drain is pending in setTimeout and no drain pass has started.
C33_Witness ==
  /\ lastRet.op = "sync"
  /\ "events" \in DOMAIN lastRet
  /\ isOnline
  /\ queue # <<>>
  /\ timers = 1
  /\ Active(passes) = {}

\* ---- a push and the merge that follows
\* C34: after a local client has been applied to the spreadsheet by saveClient and a later
\* cycle merges the snapshot that results, the merged record of that id has the name and
\* the full notes text the local record had.
C34_PushThenMergeKeepsFields ==
  merge.st = "done" =>
    \A i \in DOMAIN merge.clients :
      \A j \in DOMAIN merge.result.clients :
        merge.result.clients[j].id = merge.clients[i].id =>
          /\ merge.result.clients[j].name = merge.clients[i].name
          /\ merge.result.clients[j].notes = merge.clients[i].notes

\* ---- the order of remote applies
\* pass p hands an item to the handler in this step, and a request for it is sent
Issues(p) ==
  /\ passes'[p].st = "await"
  /\ passes'[p].sent
  /\ passes[p].st = "await" => passes'[p].idx # passes[p].idx
\* a later enqueued version of this entry's id has been applied to the remote store
LaterApplied(applied, e) ==
  /\ e.data.id # NoId
  /\ \E l \in applied : l.data.id = e.data.id /\ l.timestamp > e.timestamp

\* C35: per id, remote applies follow the order of the local writes: once a later version
\* of a record has been applied successfully (by pushChange or by a drain), no drain pass
\* still in flight hands an earlier enqueued version of that id to the remote store.
C35_AppliesFollowWriteOrder ==
  [][\A p \in PassIds :
       Issues(p) => ~LaterApplied(appliedOk', passes'[p].arr[passes'[p].idx])]_vars

\* ---- the shape of the merged lists
OnePerId(list) == \A i \in DOMAIN list : \A j \in DOMAIN list : list[i].id = list[j].id => i = j
RecIds(list) == {list[i].id : i \in DOMAIN list}
\* the remote records of a kind that are not tombstoned and whose id no local record has
RemoteOnly(kind) ==
  SelectSeq(merge.remote[kind],
            LAMBDA c : ~Tombstoned(kind, c.id) /\ c.id \notin RecIds(merge[kind]))

\* C36: when the local list and the remote list of a kind each hold at most one record per
\* id, the merged list of that kind holds at most one record per id, its ids are the local
\* ids and the ids of the remote records that are not tombstoned, the record at each local
\* position has the id of the local record at that position, and the remote-only records
\* follow the local positions in remote order.
C36_MergedListShape ==
  MergeDone =>
    \A kind \in Kinds :
      (OnePerId(merge[kind]) /\ OnePerId(merge.remote[kind])) =>
        LET out == merge.result[kind]
            loc == merge[kind]
        IN /\ OnePerId(out)
           /\ RecIds(out) = RecIds(loc) \cup {c.id : c \in {x \in Range(merge.remote[kind]) :
                                                              ~Tombstoned(kind, x.id)}}
           /\ Len(out) = Len(loc) + Len(RemoteOnly(kind))
           /\ \A i \in DOMAIN loc : out[i].id = loc[i].id
           /\ \A k \in DOMAIN RemoteOnly(kind) : out[Len(loc) + k] = RemoteOnly(kind)[k]

\* C36 witness: a local client of id 1 with an older remote copy, and a remote-only client
\* of id 2: the merged list has the remote copy of id 1 first and the client of id 2 after.
C36_Witness ==
  /\ MergeDone
  /\ merge.clients = <<Rec(1, 1, "A")>>
  /\ merge.remote.clients = <<Rec(2, 1, "B"), Rec(1, 2, "B")>>
  /\ merge.deleted = EmptyDeleted
  /\ merge.result.clients = <<Rec(1, 2, "B"), Rec(2, 1, "B")>>

\* ---- what the merge enqueues of the records it keeps
\* each id is held once at most by each list of the merge, and by one local kind only
UniqueRecords ==
  /\ \A kind \in Kinds : OnePerId(merge[kind]) /\ OnePerId(merge.remote[kind])
  /\ RecIds(merge.clients) \cap RecIds(merge.sessions) = {}

C38_ToldOnlineOnlyWhenOnline ==
  \A i \in DOMAIN notes :
    (notes[i].to = "connection" /\ notes[i].isOnline) => isOnline

\* ---- the unconfigured adapter
\* pass p has gone on from the item it was awaiting
Moved(p) == passes'[p].st = "idle" \/ passes'[p].idx # passes[p].idx

\* C39: no request is issued while the adapter is unconfigured, also once setScriptUrl has
\* cleared the URL while #isOnline is still true; and an entry of a known action that a
\* drain pass handed to the handler while the adapter was unconfigured is classified
\* failed, and is in the queue when the pass ends.
C39_NoRequestWhenUnconfigured ==
  [][/\ (Requests' \ Requests # {}) => configured /\ configured'
     /\ \A p \in PassIds :
          (/\ passes[p].st = "await"
           /\ ~passes[p].sent
           /\ passes[p].arr[passes[p].idx].action \in KnownActions
           /\ Moved(p)
           /\ lastRet'.op # "restart")
          => /\ passes[p].arr[passes[p].idx] \notin appliedOk' \ appliedOk
             /\ IF passes'[p].st = "idle"
                THEN passes[p].arr[passes[p].idx] \in Range(queue')
                ELSE passes[p].arr[passes[p].idx] \in Range(passes'[p].failed)]_vars

\* C39 witness: the URL was cleared while online, and forceProcessQueue then returned
\* {successful: 0, failed: 1} with the saveClient entry still queued and nothing applied.
C39_Witness ==
  /\ lastRet = [op |-> "forceProcessQueue", successful |-> 0, failed |-> 1]
  /\ ~configured
  /\ isOnline
  /\ Len(queue) = 1
  /\ queue[1].action = "saveClient"
  /\ appliedOk = {}
  /\ Requests = {}

\* ---- who changes the connection status
\* C40: #isOnline changes only in checkConnection: pushChange, sync, forceProcessQueue,
\* the merge, trackDeleted, clearQueue and setScriptUrl leave it as it is, also when the
\* requests they make fail.  (A restart builds a new orchestrator, which starts offline.)
C40_OnlyProbeChangesStatus ==
  [][isOnline' # isOnline => lastRet'.op \in {"checkConnection", "restart"}]_vars

\* C40 witness: online, a pushChange whose request failed has returned, the entry is
\* queued and the orchestrator is still online.
C40_Witness ==
  /\ lastRet = [op |-> "pushChange", success |-> FALSE, queued |-> TRUE, attempted |-> TRUE]
  /\ isOnline
  /\ configured
  /\ Len(queue) = 1

====
